---- MODULE Spec2Model ----
(***************************************************************************)
(* A model of bit-editor's command interpreter (applyEdits, applyBlockOps, *)
(* bytesToBits, bitsToBytes).  One behaviour is one call of applyEdits:    *)
(* the initial state holds the arguments, every action is one step of the  *)
(* function (range validation, the head of the outer loop, one decoded    *)
(* command, the end of a pass, the return).                                *)
(*                                                                         *)
(* Texts are sequences of one-character strings; indices into texts and    *)
(* bit slices are 0-based as in the Go source (Slice, At convert).         *)
(***************************************************************************)
EXTENDS Integers, Sequences, FiniteSets, TLC

VARIABLES
    data,        \* argument: the input bytes
    commands,    \* argument: the edit command text
    startBit,    \* argument: first bit of the range
    endArg,      \* argument: endBit as the caller passed it
    endBit,      \* the local endBit (normalised by the range validation)
    inputBits,   \* bytesToBits(data)
    outputBits,  \* the bytes.Buffer holding one output bit per element
    inputPos,    \* the cursor
    cmdIdx,      \* text position of the inner scan (0-based)
    logPrinted,  \* set at the end of each outer pass
    pc,          \* "start", "outer", "inner", "done" (returned),
                 \* "panic" (slice bounds out of range), "toolarge" (buffer)
    err,         \* the returned error, NoErr for nil
    result,      \* the returned bytes, NilBytes for nil
    firstData,   \* the input of the run before, NilBytes in a first run
    verbose,     \* argument: log every command
    verboseOnce, \* argument: log the commands of the first pass only
    logged,      \* something has been written to os.Stderr
    logLines,    \* the number of lines the last step wrote to os.Stderr
    passIdx,     \* the number of outer passes completed, up to MaxPass
    passStart,   \* the cursor at the head of the latest pass
    skipped,     \* the number of input bits of the range passed over by 's'
    inserted,    \* the number of bits written by 'i'
    quiet,       \* how the same call ended with both flags false, or NoCall
    lfsrMode,    \* lfsr argument --mode
    polyStr,     \* lfsr argument -p
    seedStr,     \* lfsr argument -s
    lfsrInput,   \* the content of the input file
    poly,        \* the taps parsePoly returned
    degree,      \* the degree parsePoly returned
    state,       \* the shift register, state[0] first
    bitReader,   \* BitReader: the unread bytes, buffer, offset
    bitWriter,   \* BitWriter: the bytes written, buffer, offset
    lfsrPc,      \* "none", "start", "loop", "done" (returned)
    lfsrErr,     \* the error the mode function returned, NoErr for nil
    stateTrace,  \* the register as it was before each bit of this run
    firstRun,    \* the input and the stateTrace of the run before, or NoRun
    hamMode,     \* hamming: "encode", "decode", or "block" for a single block
    hamData,     \* hamming: the input file
    hamM,        \* hamming argument -m
    hamExtended, \* hamming argument -extended
    hamVerbose,  \* hamming argument -v
    hamOut,      \* hamming: the output file; the data bits decodeBlock returned
    hamStderr,   \* hamming: the lines written to os.Stderr
    hamPc,       \* "none", "start", "done", "fatal"; "sent", "received"
    hamFirst,    \* hamming: the input of the run before, NilBytes in a first run
    hamBits,     \* the data bits of the single block
    hamBlock,    \* the single block as written, then as received
    hamFlips,    \* the positions of the single block the line has flipped
    hamReader,   \* hamming: the bitReader of encode or decode
    hamWriter,   \* hamming: the bitWriter of encode or decode
    hamSize,     \* hamming: the size decode read from the header
    hamBlockNum, \* hamming: blockNum of decode
    ilvMode,     \* interleaver: "permute", "mux" or "demux"
    patternStr,  \* interleaver argument -p
    elementSize, \* interleaver argument -s
    inverse,     \* interleaver argument -inverse
    splitN,      \* interleaver argument --split
    ilvInput,    \* interleaver: the content of the file -i names
    muxFiles,    \* interleaver: the contents of the input files of a mux run
    bitReaders,  \* the BitReaders of runMuxMode; the one of runDeMuxMode
    bitWriters,  \* the BitWriters of runDeMuxMode; the one of runMuxMode
    streamIndex, \* streamIndex of runDeMuxMode
    ilvOut,      \* interleaver: the file -o names, NilBytes before it is written
    ilvErr,      \* interleaver: the error main reports, NoErr for none
    ilvPc,       \* "none", "start", "loop", "done"
    ilvFirst     \* interleaver: the input files of the run before, or NoFiles

vars == <<data, commands, startBit, endArg, endBit, inputBits, outputBits,
          inputPos, cmdIdx, logPrinted, pc, err, result, firstData,
          verbose, verboseOnce, logged, logLines,
          passIdx, passStart, skipped, inserted, quiet,
          lfsrMode, polyStr, seedStr, lfsrInput, poly, degree, state,
          bitReader, bitWriter, lfsrPc, lfsrErr, stateTrace, firstRun,
          hamMode, hamData, hamM, hamExtended, hamVerbose, hamOut, hamStderr,
          hamPc, hamFirst, hamBits, hamBlock, hamFlips,
          hamReader, hamWriter, hamSize, hamBlockNum,
          ilvMode, patternStr, elementSize, inverse, splitN, ilvInput,
          muxFiles, bitReaders, bitWriters, streamIndex, ilvOut, ilvErr,
          ilvPc, ilvFirst>>

\* the variables of the command interpreter
editorVars == <<data, commands, startBit, endArg, endBit, inputBits,
                outputBits, inputPos, cmdIdx, logPrinted, pc, err, result,
                firstData, verbose, verboseOnce, logged, logLines,
          passIdx, passStart, skipped, inserted, quiet>>

\* the variables of the interleaver tool
interleaverVars == <<ilvMode, patternStr, elementSize, inverse, splitN,
                     ilvInput, muxFiles, bitReaders, bitWriters, streamIndex,
                     ilvOut, ilvErr, ilvPc, ilvFirst>>

\* no input files of a run before
NoFiles == <<(<<-1>>)>>

\* the variables of the hamming tool
hammingVars == <<hamMode, hamData, hamM, hamExtended, hamVerbose, hamOut,
                 hamStderr, hamPc, hamFirst, hamBits, hamBlock, hamFlips,
          hamReader, hamWriter, hamSize, hamBlockNum>>

\* the variables of the lfsr tool
lfsrVars == <<lfsrMode, polyStr, seedStr, lfsrInput, poly, degree, state,
              bitReader, bitWriter, lfsrPc, lfsrErr, stateTrace, firstRun>>

\* the flags of the call and the outcome it is compared with
flagVars == <<verbose, verboseOnce, quiet>>

----------------------------------------------------------------------------
(* Bounds of the model *)

\* longest generated input, in bytes
MaxBytes == 2
\* most tokens concatenated into a generated program text
MaxCmds == 2
\* capacity of the output buffer, in bits: a larger buffer cannot be allocated
MaxOut == 32
\* outer passes are counted up to MaxPass
MaxPass == 16

----------------------------------------------------------------------------
(* Characters and texts *)

Ord(c) ==
    CASE c = "+" -> 43 [] c = "-" -> 45
      [] c = "0" -> 48 [] c = "1" -> 49 [] c = "2" -> 50 [] c = "3" -> 51
      [] c = "4" -> 52 [] c = "5" -> 53 [] c = "6" -> 54 [] c = "7" -> 55
      [] c = "8" -> 56 [] c = "9" -> 57 [] c = ":" -> 58
      [] c = "[" -> 91 [] c = "]" -> 93
      [] c = "a" -> 97 [] c = "b" -> 98 [] c = "i" -> 105 [] c = "n" -> 110
      [] c = "o" -> 111 [] c = "s" -> 115 [] c = "t" -> 116 [] c = "v" -> 118
      [] c = "x" -> 120 [] c = "z" -> 122

\* s[i] of a Go string, i 0-based
At(s, i) == s[i + 1]

\* s[lo:hi] of a Go slice or string, 0-based, hi exclusive
Slice(s, lo, hi) == SubSeq(s, lo + 1, hi)

\* s[lo:hi] does not panic (cap(s) = len(s) for every slice the program cuts)
SliceOK(s, lo, hi) == 0 <= lo /\ lo <= hi /\ hi <= Len(s)

\* strings.ContainsRune(set, c), the set given as a set of characters
ContainsRune(set, c) == c \in set

Min(a, b) == IF a < b THEN a ELSE b

\* the one element of a singleton set
The(S) == CHOOSE x \in S : TRUE

\* the least element of a non-empty set of integers
Least(S) == CHOOSE i \in S : \A j \in S : i <= j

\* index of the first i in [from, Len(s)) with s[i] in set, else Len(s)
NextIn(s, from, set) ==
    LET hits == {i \in from..(Len(s) - 1) : ContainsRune(set, At(s, i))}
    IN IF hits = {} THEN Len(s) ELSE Least(hits)

\* strings.IndexRune(s, c): index of the first c in s, -1 if none
IndexRune(s, c) ==
    LET i == NextIn(s, 0, {c}) IN IF i >= Len(s) THEN -1 ELSE i

\* strings.Contains(s, ":")
Contains(s, c) == IndexRune(s, c) # -1

\* the characters that end the argument of a simple command
CmdStart == {"t", "s", "n", "i", "v", "x", "a", "o", "b", "["}

\* the characters that end the pattern of a logical op inside a chain
ChainStart == {"n", "v", "x", "a", "o"}

Digits == {"0", "1", "2", "3", "4", "5", "6", "7", "8", "9"}

\* the value of the first k digits of s: n = n*10 + digit, left to right
RECURSIVE DigitsValue(_, _)
DigitsValue(s, k) ==
    IF k = 0 THEN 0
    ELSE DigitsValue(s, k - 1) * 10 + (Ord(s[k]) - Ord("0"))

\* index of the first i in [from, Len(s)) with s[i] no decimal digit, else Len(s)
DigitRunEnd(s, from) ==
    LET stops == {i \in from..(Len(s) - 1) : At(s, i) \notin Digits}
    IN IF stops = {} THEN Len(s) ELSE Least(stops)

AllDigits(s) == \A k \in 1..Len(s) : s[k] \in Digits

\* strconv.Atoi for texts short enough not to overflow an int:
\* an optional sign, then a non-empty run of decimal digits
Atoi(s) ==
    IF s = <<>> THEN [ok |-> FALSE, val |-> 0]
    ELSE LET signed == Head(s) \in {"+", "-"}
             body   == IF signed THEN Tail(s) ELSE s
         IN IF body = <<>> \/ ~AllDigits(body) THEN [ok |-> FALSE, val |-> 0]
            ELSE [ok  |-> TRUE,
                  val |-> IF Head(s) = "-" THEN 0 - DigitsValue(body, Len(body))
                          ELSE DigitsValue(body, Len(body))]

----------------------------------------------------------------------------
(* Byte arithmetic *)

Pow2(n) == 2 ^ n

\* a value of Go type byte
ToByte(x) == x % 256

\* bit k (0 = least significant) of byte x
BitOf(x, k) == (x \div Pow2(k)) % 2

\* the byte whose bit k is f[k]
FromBits(f) ==
    f[0] + 2 * f[1] + 4 * f[2] + 8 * f[3] + 16 * f[4] + 32 * f[5] + 64 * f[6] + 128 * f[7]

\* variant: | in the place of ^
ByteXor_AsOr(x, y) ==
    FromBits([k \in 0..7 |-> IF BitOf(x, k) + BitOf(y, k) > 0 THEN 1 ELSE 0])

\* x ^ y, x & y, x | y on bytes
ByteXor(x, y) == FromBits([k \in 0..7 |-> (BitOf(x, k) + BitOf(y, k)) % 2])
ByteAnd(x, y) == FromBits([k \in 0..7 |-> BitOf(x, k) * BitOf(y, k)])
ByteOr(x, y) ==
    FromBits([k \in 0..7 |-> IF BitOf(x, k) + BitOf(y, k) > 0 THEN 1 ELSE 0])

\* resultBit of the inner switch of a logical op
LogicalOp(command, bit, patternBit) ==
    The({ CASE command = "x" -> ByteXor(b, p)
            [] command = "a" -> ByteAnd(b, p)
            [] command = "o" -> ByteOr(b, p) : b \in {bit}, p \in {patternBit} })

\* byte(pattern[i%len(pattern)] - '0')
PatternBit(pattern, i) == ToByte(Ord(At(pattern, i % Len(pattern))) - Ord("0") + 256)

----------------------------------------------------------------------------
(* Bit packing *)

\* variant: least significant bit first
bytesToBits_LsbFirst(d) ==
    [i \in 1..(8 * Len(d)) |-> BitOf(d[((i - 1) \div 8) + 1], (i - 1) % 8)]

bytesToBits(d) ==
    [i \in 1..(8 * Len(d)) |-> BitOf(d[((i - 1) \div 8) + 1], 7 - ((i - 1) % 8))]

bitsToBytes(bits) ==
    [k \in 1..((Len(bits) + 7) \div 8) |->
        FromBits([j \in 0..7 |->
                    IF 8 * (k - 1) + (7 - j) < Len(bits)
                       /\ At(bits, 8 * (k - 1) + (7 - j)) = 1
                    THEN 1 ELSE 0])]

----------------------------------------------------------------------------
(* Errors and return values *)

NoErr == "nil"
ErrStartBounds == "start bit is out of bounds"
ErrStartAfterEnd == "start bit cannot be greater than end bit"
ErrBrackets == "mismatched brackets in command string"
ErrBlockNoNumber == "block operation must be followed by a number"
ErrBlockNumber == "invalid number for block operation"
ErrNumeric == "invalid numeric argument for command"
ErrNotByteMultiple == "argument for 'b' command must be a multiple of 8"
ErrInsert == "invalid binary string for 'i' command"
ErrLogicalArg == "invalid argument for command: expected <number>:<pattern>"
ErrLogicalCount == "invalid numeric count for command"
ErrPatternEmpty == "binary pattern for command cannot be empty"
ErrPattern == "invalid binary pattern for command"
ErrUnknown == "unknown command"
ErrChainNoPattern == "logical op in block requires a pattern"
ErrChainPatternEmpty == "pattern cannot be empty"
ErrChainNotAllowed == "command not allowed in block operation"
ErrChainUnknown == "unknown command in block operation"

\* a nil []byte (bitsToBytes never returns it: its results hold bytes 0..255)
NilBytes == <<-1>>

\* no earlier call to compare with
NoCall == [pc |-> "none"]

----------------------------------------------------------------------------
(* applyBlockOps *)

Reverse(s) == [k \in 1..Len(s) |-> s[Len(s) + 1 - k]]

\* ChainInvert complementing the whole byte that holds the bit
ChainInvert_Complement(chunk) == [k \in 1..Len(chunk) |-> 255 - chunk[k]]

\* case 'n' of a chain: processedChunk[i] = 1 - bit, in byte arithmetic
ChainInvert(chunk) == [k \in 1..Len(chunk) |-> ToByte(1 - chunk[k] + 256)]

\* case 'v' of a chain
ChainReverse(chunk) == Reverse(chunk)

\* variant: the chunk is left as it is
ChainByteSwap_Unswapped(chunk) == chunk

\* case 'b' of a chain: whole bytes reordered when there are at least two
ChainByteSwap(chunk) ==
    LET numBytes == Len(chunk) \div 8 IN
    IF numBytes > 1
    THEN [k \in 1..Len(chunk) |->
            IF (k - 1) \div 8 < numBytes
            THEN chunk[(numBytes - 1 - ((k - 1) \div 8)) * 8 + ((k - 1) % 8) + 1]
            ELSE chunk[k]]
    ELSE chunk

\* case 'x', 'a', 'o' of a chain, the pattern being non-empty
ChainLogical(command, chunk, pattern) ==
    [k \in 1..Len(chunk) |-> LogicalOp(command, chunk[k], PatternBit(pattern, k - 1))]

\* the command at text position idx of a chain, its argument text and the
\* position of the command after it
ChainDecode(subProgram, idx) ==
    LET command    == At(subProgram, idx)
        isLogical  == ContainsRune({"x", "a", "o"}, command)
        nextCmdIdx == IF isLogical THEN NextIn(subProgram, idx + 1, ChainStart)
                      ELSE idx + 1
    IN [command |-> command,
        argStr  |-> IF isLogical THEN Slice(subProgram, idx + 1, nextCmdIdx) ELSE <<>>,
        next    |-> nextCmdIdx]

\* the command switch of applyBlockOps on the working chunk
ChainStep(command, argStr, processedChunk) ==
    LET pattern == Slice(argStr, IndexRune(argStr, ":") + 1, Len(argStr))
    IN CASE command = "n" -> [err |-> NoErr, chunk |-> ChainInvert(processedChunk)]
         [] command = "v" -> [err |-> NoErr, chunk |-> ChainReverse(processedChunk)]
         [] command = "b" -> [err |-> NoErr, chunk |-> ChainByteSwap(processedChunk)]
         [] command \in {"x", "a", "o"} ->
              IF ~Contains(argStr, ":")
              THEN [err |-> ErrChainNoPattern, chunk |-> <<>>]
              ELSE IF Len(pattern) = 0
              THEN [err |-> ErrChainPatternEmpty, chunk |-> <<>>]
              ELSE [err   |-> NoErr,
                    chunk |-> ChainLogical(command, processedChunk, pattern)]
         [] command \in {"t", "s", "i"} ->
              [err |-> ErrChainNotAllowed, chunk |-> <<>>]
         [] OTHER -> [err |-> ErrChainUnknown, chunk |-> <<>>]

\* BlockLoop applying the last command of the chain first
RECURSIVE BlockLoop_RightToLeft(_, _, _)
BlockLoop_RightToLeft(processedChunk, subProgram, idx) ==
    IF idx >= Len(subProgram) THEN [err |-> NoErr, chunk |-> processedChunk]
    ELSE LET d == ChainDecode(subProgram, idx)
         IN The({ IF rest.err # NoErr THEN rest
                  ELSE ChainStep(d.command, d.argStr, rest.chunk) :
                  rest \in {BlockLoop_RightToLeft(processedChunk, subProgram, d.next)} })

\* the loop of applyBlockOps from text position idx on
RECURSIVE BlockLoop(_, _, _)
BlockLoop(processedChunk, subProgram, idx) ==
    IF idx >= Len(subProgram) THEN [err |-> NoErr, chunk |-> processedChunk]
    ELSE LET d == ChainDecode(subProgram, idx)
             r == ChainStep(d.command, d.argStr, processedChunk)
         IN The({ IF v.err # NoErr THEN v ELSE BlockLoop(v.chunk, subProgram, d.next) :
                  v \in {r} })

applyBlockOps(initialChunk, subProgram) == BlockLoop(initialChunk, subProgram, 0)

\* the positions of the commands of a chain, as applyBlockOps decodes them
RECURSIVE ChainPositions(_, _)
ChainPositions(subProgram, idx) ==
    IF idx >= Len(subProgram) THEN {}
    ELSE {idx} \cup ChainPositions(subProgram, ChainDecode(subProgram, idx).next)

\* the error of the chain command at position idx, none when it is applied
ChainErrorAt(subProgram, idx) ==
    LET d == ChainDecode(subProgram, idx) IN ChainStep(d.command, d.argStr, <<>>).err

\* the positions of the chain commands that fail
FailingAt(subProgram) ==
    {idx \in ChainPositions(subProgram, 0) : ChainErrorAt(subProgram, idx) # NoErr}

\* the lines applyBlockOps logs when verbose: one for each command decoded,
\* the first that fails included
ChainLines(subProgram) ==
    LET fail == FailingAt(subProgram)
    IN Cardinality({idx \in ChainPositions(subProgram, 0) :
                       fail = {} \/ idx <= Least(fail)})

\* variant: the chain works on the slice it is given (processedChunk :=
\* initialChunk), so the caller's bits hold the transformed chunk
InitialChunkAfter_InPlace(initialChunk, subProgram) ==
    LET processed == applyBlockOps(initialChunk, subProgram)
    IN IF processed.err = NoErr THEN processed.chunk ELSE initialChunk

\* the caller's slice after the call: processedChunk is made and copied from
\* initialChunk, every write of the chain goes to processedChunk
InitialChunkAfter(initialChunk, subProgram) == initialChunk

----------------------------------------------------------------------------
(* applyEdits: the effect of one decoded command *)

\* the command continues the inner scan
Ok(out, pos, idx) == [kind |-> "ok", out |-> out, pos |-> pos, idx |-> idx, err |-> NoErr]

\* the command makes applyEdits return the error e, out having been written
Fail(e, out) == [kind |-> "err", out |-> out, pos |-> 0, idx |-> 0, err |-> e]

\* a slice expression of the command is out of range: a run-time panic
Panic == [kind |-> "panic", out |-> <<>>, pos |-> 0, idx |-> 0, err |-> NoErr]

\* variant: readEnd is not clamped to endBit
ReadEnd_Unclamped(pos, count, end) == pos + count

\* variant: the chunk of a command is empty
ReadEnd_Stays(pos, count, end) == pos

\* readEnd := inputPos + count; if readEnd > endBit { readEnd = endBit }
ReadEnd(pos, count, end) == IF pos + count > end THEN end ELSE pos + count

\* the argument text of the simple command at text position idx
ArgEnd(cmds, idx) == NextIn(cmds, idx + 1, CmdStart)
ArgStr(cmds, idx) == Slice(cmds, idx + 1, ArgEnd(cmds, idx))

\* case 't'
TakeBits(chunk) == chunk

\* case 'n'
InvertBits(chunk) == [k \in 1..Len(chunk) |-> ToByte(1 - chunk[k] + 256)]

\* case 'v'
ReverseBits(chunk) == Reverse(chunk)

\* variant: the chunk is written last bit first
ByteSwapBits_ReverseAll(chunk) == Reverse(chunk)

\* case 'b': the whole bytes last to first, then the bits short of a byte
ByteSwapBits(chunk) ==
    LET numBytes == Len(chunk) \div 8 IN
    [k \in 1..Len(chunk) |->
        IF (k - 1) \div 8 < numBytes
        THEN chunk[(numBytes - 1 - ((k - 1) \div 8)) * 8 + ((k - 1) % 8) + 1]
        ELSE chunk[k]]

\* case 'x', 'a', 'o'
LogicalBits(command, chunk, pattern) ==
    [k \in 1..Len(chunk) |-> LogicalOp(command, chunk[k], PatternBit(pattern, k - 1))]

\* the commands t, n, v, b: a count, a clamped chunk of the input, its image
ChunkCommand(command, bits, cmds, idx, pos, end) ==
    LET n       == Atoi(ArgStr(cmds, idx))
        readEnd == ReadEnd(pos, n.val, end)
        chunk   == Slice(bits, pos, readEnd)
    IN IF ~n.ok THEN Fail(ErrNumeric, <<>>)
       ELSE IF command = "b" /\ n.val % 8 # 0 THEN Fail(ErrNotByteMultiple, <<>>)
       ELSE IF ~SliceOK(bits, pos, readEnd) THEN Panic
       ELSE Ok(CASE command = "t" -> TakeBits(chunk)
                 [] command = "n" -> InvertBits(chunk)
                 [] command = "v" -> ReverseBits(chunk)
                 [] command = "b" -> ByteSwapBits(chunk),
               readEnd, ArgEnd(cmds, idx))

\* SkipCommand passing over one bit too many
SkipCommand_OneMore(cmds, idx, pos) ==
    LET n == Atoi(ArgStr(cmds, idx))
    IN IF ~n.ok THEN Fail(ErrNumeric, <<>>)
       ELSE Ok(<<>>, pos + n.val + 1, ArgEnd(cmds, idx))

\* case 's': inputPos += count
SkipCommand(cmds, idx, pos) ==
    LET n == Atoi(ArgStr(cmds, idx))
    IN IF ~n.ok THEN Fail(ErrNumeric, <<>>)
       ELSE Ok(<<>>, pos + n.val, ArgEnd(cmds, idx))

\* the bits of the characters of lit before its first character other than
\* '0' and '1'
BinaryPrefix(lit) ==
    LET bad == {k \in 1..Len(lit) : lit[k] \notin {"0", "1"}}
        n   == IF bad = {} THEN Len(lit) ELSE Least(bad) - 1
    IN [k \in 1..n |-> Ord(lit[k]) - Ord("0")]

\* variant: the cursor moves by the length of the literal
InsertCommand_Advances(cmds, idx, pos) ==
    LET argStr == ArgStr(cmds, idx)
        bits   == BinaryPrefix(argStr)
    IN IF Len(bits) < Len(argStr) THEN Fail(ErrInsert, bits)
       ELSE Ok(bits, pos + Len(bits), ArgEnd(cmds, idx))

\* case 'i': one bit written per character, up to the first bad character
InsertCommand(cmds, idx, pos) ==
    LET argStr == ArgStr(cmds, idx)
        bits   == BinaryPrefix(argStr)
    IN IF Len(bits) < Len(argStr) THEN Fail(ErrInsert, bits)
       ELSE Ok(bits, pos, ArgEnd(cmds, idx))

\* case 'x', 'a', 'o'
LogicalCommand(command, bits, cmds, idx, pos, end) ==
    LET argStr  == ArgStr(cmds, idx)
        colon   == IndexRune(argStr, ":")
        n       == Atoi(Slice(argStr, 0, colon))
        pattern == Slice(argStr, colon + 1, Len(argStr))
        readEnd == ReadEnd(pos, n.val, end)
    IN IF colon = -1 THEN Fail(ErrLogicalArg, <<>>)
       ELSE IF ~n.ok THEN Fail(ErrLogicalCount, <<>>)
       ELSE IF Len(pattern) = 0 THEN Fail(ErrPatternEmpty, <<>>)
       ELSE IF \E k \in 1..Len(pattern) : pattern[k] \notin {"0", "1"}
       THEN Fail(ErrPattern, <<>>)
       ELSE IF ~SliceOK(bits, pos, readEnd) THEN Panic
       ELSE Ok(LogicalBits(command, Slice(bits, pos, readEnd), pattern),
               readEnd, ArgEnd(cmds, idx))

\* variant: the chain is run before the count is looked for
BlockCommand_ChainFirst(bits, cmds, idx, pos, end) ==
    LET rest          == Slice(cmds, idx + 1, Len(cmds))
        endBracketIdx == IndexRune(rest, "]") + idx + 1
        subProgram    == Slice(cmds, idx + 1, endBracketIdx)
        numStartIdx   == endBracketIdx + 1
        numEndIdx     == DigitRunEnd(cmds, numStartIdx)
        n             == Atoi(Slice(cmds, numStartIdx, numEndIdx))
        readEnd       == ReadEnd(pos, n.val, end)
        processed     == applyBlockOps(Slice(bits, pos, readEnd), subProgram)
    IN IF IndexRune(rest, "]") = -1 THEN Fail(ErrBrackets, <<>>)
       ELSE IF ~SliceOK(bits, pos, readEnd) THEN Panic
       ELSE IF processed.err # NoErr THEN Fail(processed.err, <<>>)
       ELSE IF numStartIdx = numEndIdx THEN Fail(ErrBlockNoNumber, <<>>)
       ELSE IF ~n.ok THEN Fail(ErrBlockNumber, <<>>)
       ELSE Ok(processed.chunk, readEnd, numEndIdx)

\* command '[': the chain up to the first ']', the count, the block
BlockCommand(bits, cmds, idx, pos, end) ==
    LET rest          == Slice(cmds, idx + 1, Len(cmds))
        endBracketIdx == IndexRune(rest, "]") + idx + 1
        subProgram    == Slice(cmds, idx + 1, endBracketIdx)
        numStartIdx   == endBracketIdx + 1
        numEndIdx     == DigitRunEnd(cmds, numStartIdx)
        n             == Atoi(Slice(cmds, numStartIdx, numEndIdx))
        readEnd       == ReadEnd(pos, n.val, end)
        processed     == applyBlockOps(Slice(bits, pos, readEnd), subProgram)
    IN IF IndexRune(rest, "]") = -1 THEN Fail(ErrBrackets, <<>>)
       ELSE IF numStartIdx = numEndIdx THEN Fail(ErrBlockNoNumber, <<>>)
       ELSE IF ~n.ok THEN Fail(ErrBlockNumber, <<>>)
       ELSE IF ~SliceOK(bits, pos, readEnd) THEN Panic
       ELSE IF processed.err # NoErr THEN Fail(processed.err, <<>>)
       ELSE Ok(processed.chunk, readEnd, numEndIdx)

\* the storage of inputBits after the command '[': chunk is the slice
\* inputBits[inputPos:readEnd] of it, handed to applyBlockOps
InputAfterBlock(bits, cmds, idx, pos, end) ==
    LET rest          == Slice(cmds, idx + 1, Len(cmds))
        endBracketIdx == IndexRune(rest, "]") + idx + 1
        subProgram    == Slice(cmds, idx + 1, endBracketIdx)
        numStartIdx   == endBracketIdx + 1
        numEndIdx     == DigitRunEnd(cmds, numStartIdx)
        n             == Atoi(Slice(cmds, numStartIdx, numEndIdx))
        readEnd       == ReadEnd(pos, n.val, end)
    IN IF IndexRune(rest, "]") = -1 \/ numStartIdx = numEndIdx \/ ~n.ok
          \/ ~SliceOK(bits, pos, readEnd)
       THEN bits
       ELSE Slice(bits, 0, pos)
            \o InitialChunkAfter(Slice(bits, pos, readEnd), subProgram)
            \o Slice(bits, readEnd, Len(bits))

----------------------------------------------------------------------------
(* applyEdits: the steps *)

\* NormalEnd with the test endBit < 0: an end of 0 is kept
NormalEnd_KeepsZero(end, len) == IF end < 0 \/ end > len THEN len ELSE end

\* if endBit <= 0 || endBit > len(inputBits) { endBit = len(inputBits) }
NormalEnd(end, len) == IF end <= 0 \/ end > len THEN len ELSE end

\* ErrorResult returning what was written so far
ErrorResult_Partial(out) == bitsToBytes(out)

\* the bytes returned with an error: return nil, err
ErrorResult(out) == NilBytes

\* the range validation and the initialisation of the locals
Validate ==
    /\ pc = "start"
    /\ inputBits' = bytesToBits(data)
    /\ LET len    == 8 * Len(data)
           newEnd == NormalEnd(endBit, len)
       IN IF startBit < 0 \/ startBit > len
          THEN /\ pc' = "done" /\ err' = ErrStartBounds /\ result' = ErrorResult(outputBits)
               /\ UNCHANGED <<endBit, inputPos>>
          ELSE IF startBit > newEnd
          THEN /\ pc' = "done" /\ err' = ErrStartAfterEnd /\ result' = ErrorResult(outputBits)
               /\ endBit' = newEnd
               /\ UNCHANGED inputPos
          ELSE /\ pc' = "outer"
               /\ endBit' = newEnd
               /\ inputPos' = startBit
               /\ UNCHANGED <<err, result>>
    /\ logged' = (logged \/ (verbose /\ pc' = "outer"))
    /\ logLines' = (IF verbose /\ pc' = "outer" THEN 1 ELSE 0)
    /\ UNCHANGED <<interleaverVars, hammingVars, lfsrVars, flagVars, passIdx, passStart, skipped, inserted, firstData, data, commands, startBit, endArg, outputBits,
                   cmdIdx, logPrinted>>

\* variant: the outer loop does not look at the length of the text
BeginPass_AnyText ==
    /\ pc = "outer"
    /\ inputPos < endBit
    /\ cmdIdx' = 0
    /\ pc' = "inner"
    /\ passStart' = inputPos
    /\ logLines' = 0
    /\ UNCHANGED <<interleaverVars, hammingVars, lfsrVars, flagVars, logged, passIdx, skipped, inserted, firstData, data, commands, startBit, endArg, endBit,
                   inputBits,
                   outputBits, inputPos, logPrinted, err, result>>

\* variant: the text position is reset on the first pass only; a later pass
\* starts at the command after the first
BeginPass_NotReset ==
    /\ pc = "outer"
    /\ inputPos < endBit
    /\ Len(commands) # 0
    /\ cmdIdx' = (IF logPrinted THEN ArgEnd(commands, 0) ELSE 0)
    /\ pc' = "inner"
    /\ passStart' = inputPos
    /\ logLines' = 0
    /\ UNCHANGED <<interleaverVars, hammingVars, lfsrVars, flagVars, logged, passIdx, skipped, inserted, firstData, data, commands, startBit, endArg, endBit,
                   inputBits, outputBits,
                   inputPos, logPrinted, err, result>>

\* the head of the outer loop: one more pass over the command text
BeginPass ==
    /\ pc = "outer"
    /\ inputPos < endBit
    /\ Len(commands) # 0
    /\ cmdIdx' = 0
    /\ pc' = "inner"
    /\ passStart' = inputPos
    /\ logLines' = 0
    /\ UNCHANGED <<interleaverVars, hammingVars, lfsrVars, flagVars, logged, passIdx, skipped, inserted, firstData, data, commands, startBit, endArg, endBit,
                   inputBits, outputBits,
                   inputPos, logPrinted, err, result>>

\* variant: with verboseOnce the outer loop is left after the logged pass
Return_AfterLoggedPass ==
    /\ pc = "outer"
    /\ (~(inputPos < endBit /\ Len(commands) # 0) \/ (verboseOnce /\ logPrinted))
    /\ result' = bitsToBytes(outputBits)
    /\ pc' = "done"
    /\ logLines' = 0
    /\ UNCHANGED <<interleaverVars, hammingVars, lfsrVars, flagVars, logged, passIdx, passStart, skipped, inserted, firstData, data, commands, startBit, endArg, endBit,
                   inputBits, outputBits, inputPos, cmdIdx, logPrinted, err>>

\* the outer loop is left: return bitsToBytes(outputBits.Bytes()), nil
Return ==
    /\ pc = "outer"
    /\ ~(inputPos < endBit /\ Len(commands) # 0)
    /\ result' = bitsToBytes(outputBits)
    /\ pc' = "done"
    /\ logLines' = 0
    /\ UNCHANGED <<interleaverVars, hammingVars, lfsrVars, flagVars, logged, passIdx, passStart, skipped, inserted, firstData, data, commands, startBit, endArg, endBit,
                   inputBits, outputBits,
                   inputPos, cmdIdx, logPrinted, err>>

\* the inner loop is left: logPrinted = true
EndPass ==
    /\ pc = "inner"
    /\ (cmdIdx >= Len(commands) \/ inputPos >= endBit)
    /\ logPrinted' = TRUE
    /\ pc' = "outer"
    /\ logLines' = 0
    /\ passIdx' = Min(passIdx + 1, MaxPass)
    /\ UNCHANGED <<interleaverVars, hammingVars, lfsrVars, flagVars, logged, passStart, skipped, inserted, firstData, data, commands, startBit, endArg, endBit,
                   inputBits, outputBits,
                   inputPos, cmdIdx, err, result>>

\* the inner loop decodes the command at cmdIdx
AtCommand(set) ==
    /\ pc = "inner"
    /\ cmdIdx < Len(commands)
    /\ inputPos < endBit
    /\ At(commands, cmdIdx) \in set

\* the writes of a command to outputBits: the buffer panics when it cannot grow
Written(out) == SubSeq(outputBits \o out, 1, Min(Len(outputBits) + Len(out), MaxOut))

\* variant: with verbose set every pass is logged
ShouldLog_EveryPass == verbose

\* shouldLog := verbose && (!verboseOnce || !logPrinted)
ShouldLog == verbose /\ (~verboseOnce \/ ~logPrinted)

\* the command returned before its first line was logged: a block without
\* its ']' or without its count
BeforeLog(r) ==
    r.kind = "err" /\ r.err \in {ErrBrackets, ErrBlockNoNumber, ErrBlockNumber}

\* the lines logged for the command at idx when shouldLog: the "Processing"
\* line, the lines of the chain of a block, the "Wrote" line of a command
\* other than 's' that has not failed
LinesOf(r, cmds, idx) ==
    IF At(cmds, idx) = "["
    THEN IF BeforeLog(r) THEN 0
         ELSE IF r.kind = "panic" THEN 1
         ELSE 1 + ChainLines(Slice(cmds, idx + 1,
                                   IndexRune(Slice(cmds, idx + 1, Len(cmds)), "]")
                                   + idx + 1))
                + (IF r.kind = "ok" THEN 1 ELSE 0)
    ELSE 1 + (IF r.kind = "ok" /\ At(cmds, idx) # "s" THEN 1 ELSE 0)

\* the state after a command with effect r that leaves bits in the storage
\* of inputBits
ApplyOn(r, bits) ==
    /\ inputBits' = bits
    /\ outputBits' = Written(r.out)
    /\ logged' = (logged \/ (ShouldLog /\ ~BeforeLog(r)))
    /\ logLines' = (IF ShouldLog THEN LinesOf(r, commands, cmdIdx) ELSE 0)
    /\ skipped' = (IF r.kind = "ok" /\ At(commands, cmdIdx) = "s"
                   THEN skipped + Min(r.pos, endBit) - Min(inputPos, endBit)
                   ELSE skipped)
    /\ inserted' = (IF r.kind = "ok" /\ At(commands, cmdIdx) = "i"
                    THEN inserted + Len(r.out)
                    ELSE inserted)
    /\ IF Len(outputBits) + Len(r.out) > MaxOut
       THEN /\ pc' = "toolarge"
            /\ UNCHANGED <<inputPos, cmdIdx, err, result>>
       ELSE IF r.kind = "panic"
       THEN /\ pc' = "panic"
            /\ UNCHANGED <<inputPos, cmdIdx, err, result>>
       ELSE IF r.kind = "err"
       THEN /\ pc' = "done" /\ err' = r.err /\ result' = ErrorResult(outputBits')
            /\ UNCHANGED <<inputPos, cmdIdx>>
       ELSE /\ inputPos' = r.pos /\ cmdIdx' = r.idx
            /\ UNCHANGED <<pc, err, result>>
    /\ UNCHANGED <<interleaverVars, hammingVars, lfsrVars, flagVars, passIdx, passStart, firstData, data, commands, startBit, endArg, endBit,
                   logPrinted>>

\* the state after a command with effect r: the commands of applyEdits read
\* inputBits and write to outputBits only
Apply(r) == ApplyOn(r, inputBits)

Take ==
    /\ AtCommand({"t"})
    /\ \E r \in {ChunkCommand("t", inputBits, commands, cmdIdx, inputPos, endBit)} : Apply(r)

Skip ==
    /\ AtCommand({"s"})
    /\ \E r \in {SkipCommand(commands, cmdIdx, inputPos)} : Apply(r)

Invert ==
    /\ AtCommand({"n"})
    /\ \E r \in {ChunkCommand("n", inputBits, commands, cmdIdx, inputPos, endBit)} : Apply(r)

ReverseBitsCmd ==
    /\ AtCommand({"v"})
    /\ \E r \in {ChunkCommand("v", inputBits, commands, cmdIdx, inputPos, endBit)} : Apply(r)

ByteSwap ==
    /\ AtCommand({"b"})
    /\ \E r \in {ChunkCommand("b", inputBits, commands, cmdIdx, inputPos, endBit)} : Apply(r)

\* variant: Insert is decoded without the check of inputPos against endBit
Insert_Unchecked ==
    /\ pc = "inner"
    /\ cmdIdx < Len(commands)
    /\ At(commands, cmdIdx) = "i"
    /\ \E r \in {InsertCommand(commands, cmdIdx, inputPos)} : Apply(r)

Insert ==
    /\ AtCommand({"i"})
    /\ \E r \in {InsertCommand(commands, cmdIdx, inputPos)} : Apply(r)

Logical ==
    /\ AtCommand({"x", "a", "o"})
    /\ \E r \in {LogicalCommand(At(commands, cmdIdx), inputBits, commands, cmdIdx,
                            inputPos, endBit)} : Apply(r)

Block ==
    /\ AtCommand({"["})
    /\ \E r \in {BlockCommand(inputBits, commands, cmdIdx, inputPos, endBit)} :
          ApplyOn(r, InputAfterBlock(inputBits, commands, cmdIdx, inputPos, endBit))

\* variant: a character that is no command is passed over
Unknown_Skipped ==
    /\ pc = "inner"
    /\ cmdIdx < Len(commands)
    /\ inputPos < endBit
    /\ At(commands, cmdIdx) \notin CmdStart
    /\ \E r \in {Ok(<<>>, inputPos, cmdIdx + 1)} : Apply(r)

\* default: of the command switch
Unknown ==
    /\ pc = "inner"
    /\ cmdIdx < Len(commands)
    /\ inputPos < endBit
    /\ At(commands, cmdIdx) \notin CmdStart
    /\ \E r \in {Fail(ErrUnknown, <<>>)} : Apply(r)

\* the -e texts of the runs that are repeated: one XOR command, xN:P
Repeated ==
    {<<"x">> \o n \o <<":">> \o p :
        n \in {<<"1">>, <<"3">>, <<"8">>, <<"1", "6">>},
        p \in {<<"1">>, <<"0">>, <<"1", "0">>, <<"0", "1", "1">>,
               <<"1", "0", "1", "1", "0", "1", "0", "1">>}}

\* the tool is run a second time with the same -e text on the file the first
\* run wrote: main reads it and calls applyEdits again
RunAgain ==
    /\ pc = "done"
    /\ err = NoErr
    /\ firstData = NilBytes
    /\ quiet = NoCall
    /\ commands \in Repeated
    /\ startBit = 0
    /\ endArg = 0
    /\ firstData' = data
    /\ data' = result
    /\ endBit' = endArg
    /\ inputBits' = <<>>
    /\ outputBits' = <<>>
    /\ inputPos' = 0
    /\ cmdIdx' = 0
    /\ logPrinted' = FALSE
    /\ logged' = FALSE
    /\ logLines' = 0
    /\ passIdx' = 0
    /\ passStart' = 0
    /\ skipped' = 0
    /\ inserted' = 0
    /\ pc' = "start"
    /\ result' = NilBytes
    /\ UNCHANGED <<interleaverVars, hammingVars, lfsrVars, flagVars, commands, startBit, endArg, err>>

\* the calls that are made again with logging: the inputs B0 and B0 41 with
\* a text of at most 5 characters
LoggedCall(d, c, s, e) == d \in {<<176>>, <<176, 65>>} /\ Len(c) <= 5

\* the call has ended: it returned, or the run-time system stopped it
Halted == pc \in {"done", "panic", "toolarge"}

\* how the call ended
Outcome ==
    [pc |-> pc, err |-> err, result |-> result, outputBits |-> outputBits,
     inputPos |-> inputPos]

\* the same call is made again with one of verbose, verboseOnce set
RunLogged ==
    /\ Halted
    /\ quiet = NoCall
    /\ firstData = NilBytes
    /\ LoggedCall(data, commands, startBit, endArg)
    /\ \E v, vo \in BOOLEAN :
          /\ v \/ vo
          /\ verbose' = v
          /\ verboseOnce' = vo
    /\ quiet' = Outcome
    /\ endBit' = endArg
    /\ inputBits' = <<>>
    /\ outputBits' = <<>>
    /\ inputPos' = 0
    /\ cmdIdx' = 0
    /\ logPrinted' = FALSE
    /\ logged' = FALSE
    /\ logLines' = 0
    /\ passIdx' = 0
    /\ passStart' = 0
    /\ skipped' = 0
    /\ inserted' = 0
    /\ pc' = "start"
    /\ err' = NoErr
    /\ result' = NilBytes
    /\ UNCHANGED <<interleaverVars, hammingVars, lfsrVars, firstData, data, commands, startBit, endArg>>

Next ==
    \/ Validate
    \/ BeginPass
    \/ Return
    \/ EndPass
    \/ Take
    \/ Skip
    \/ Invert
    \/ ReverseBitsCmd
    \/ ByteSwap
    \/ Insert
    \/ Logical
    \/ Block
    \/ Unknown
    \/ RunAgain
    \/ RunLogged

----------------------------------------------------------------------------
(* The calls of applyEdits the model follows *)

In(d, c, s, e) == [data |-> d, commands |-> c, startBit |-> s, endBit |-> e]

\* the byte values of generated inputs: 0xB0 and 0x41
ByteVals == {176, 65}

\* the byte sequences over ByteVals of at most n bytes
RECURSIVE BytesUpTo(_)
BytesUpTo(n) ==
    IF n = 0 THEN {<<>>}
    ELSE BytesUpTo(n - 1) \cup
         {Append(d, b) : d \in {x \in BytesUpTo(n - 1) : Len(x) = n - 1}, b \in ByteVals}

\* one command each, as written in a command text
Tokens ==
    { <<"t", "3">>,
      <<"s", "2">>,
      <<"i", "1">>,
      <<"n", "4">>,
      <<"v", "5">>,
      <<"b", "8">>,
      <<"x", "3", ":", "1", "0">>,
      <<"[", "v", "n", "]", "8">>,
      <<"t", "0">>,
      <<"z">> }

\* the texts made of at most n tokens
RECURSIVE TextsUpTo(_)
TextsUpTo(n) ==
    IF n = 0 THEN {<<>>}
    ELSE TextsUpTo(n - 1) \cup {p \o t : p \in TextsUpTo(n - 1), t \in Tokens}

\* generated calls: every short text on every short input, on four ranges
Generated ==
    {In(d, c, s, e) : d \in BytesUpTo(MaxBytes), c \in TextsUpTo(MaxCmds),
                      s \in {0, 3}, e \in {0, 6}}

\* the first n bytes of 0xB0 0x41 0xB0 0x41 ...
Alternating(n) == [k \in 1..n |-> IF k % 2 = 1 THEN 176 ELSE 65]

\* calls on every range argument around the input, valid or not
Ranges ==
    {In(Alternating(n), c, s, e) :
        n \in 0..MaxBytes, c \in {<<>>, <<"t", "8">>},
        s \in (0 - 1)..(8 * MaxBytes + 1), e \in (0 - 1)..(8 * MaxBytes + 1)}

\* the calls of the documentation's examples and of the boundary cases
Scenarios ==
    { In(<<65,66,67,65,66,67,65,66,67>>, <<"s", "1", "6", "t", "8">>, 0, 0),
      In(<<176>>, <<"[", "n", "v", "]", "8">>, 0, 0),
      In(<<176>>, <<"[", "v", "n", "]", "8">>, 0, 0),
      In(<<176>>, <<"[", "x", ":", "2", "]", "8">>, 0, 0),
      In(<<176>>, <<"t", "4", "i", "1", "2">>, 0, 0),
      In(<<176>>, <<"i", "1", "z">>, 0, 0),
      In(<<176>>, <<"z", "5">>, 0, 0),
      In(<<>>, <<"z", "5">>, 0, 0),
      In(<<176>>, <<"t", "-", "1">>, 0, 0),
      In(<<176>>, <<"s", "-", "1", "t", "1">>, 1, 0),
      In(<<176>>, <<"s", "9">>, 0, 0),
      In(<<176>>, <<"s", "-", "1", "t", "1">>, 0, 0),
      In(<<176>>, <<"t", "+", "3">>, 0, 0),
      In(<<176>>, <<"s", "-", "1", "x", "1", ":", "1">>, 0, 0),
      In(<<176>>, <<"s", "-", "1", "n", "1">>, 0, 0),
      In(<<176>>, <<"s", "-", "1", "v", "1">>, 0, 0),
      In(<<176>>, <<"s", "-", "1", "[", "n", "]", "1">>, 0, 0),
      In(<<176>>, <<"i", "t", "8">>, 0, 0),
      In(<<176>>, <<"t", "4", "i">>, 0, 0),
      In(<<176>>, <<"t", "8", "i", "1">>, 0, 0),
      In(<<176>>, <<"s", "5", "i", "1", "t", "2">>, 0, 0),
      In(<<176>>, <<"i", "1", "t", "1">>, 3, 6),
      In(<<176>>, <<"i", "1", "0", "2", "t", "8">>, 0, 0),
      In(<<176,65>>, <<"[", "x", ":", "1", "b", "]", "1", "6">>, 0, 0),
      In(<<176,65>>, <<"[", "x", ":", "1", "]", "1", "6">>, 0, 0),
      In(<<176,65>>, <<"[", "v", "b", "]", "1", "6">>, 0, 0),
      In(<<176,65>>, <<"[", "b", "v", "]", "1", "6">>, 0, 0),
      In(<<176>>, <<"[", "v", "x", ":", "1", "0", "]", "8">>, 0, 0),
      In(<<176>>, <<"[", "x", ":", "1", "0", "v", "]", "8">>, 0, 0) }

\* byte swaps of words of one to four bytes, on ranges that hold whole words
\* and on ranges that do not
SwapCalls ==
    {In(d, <<"b">> \o n, s, e) :
        d \in {<<1, 2, 3, 4>>, <<176, 65>>, <<176, 65, 1, 2>>},
        n \in {<<"8">>, <<"1", "6">>, <<"2", "4">>, <<"3", "2">>},
        s \in {0, 3, 4}, e \in {0, 11, 16, 19, 20, 27}}

\* the text of a block of 8 bits with chain c: "[c]8"
BlockOf(c) == <<"[">> \o c \o <<"]", "8">>

\* chains that hold a t, s or i: first, after n, v, b, after a pattern
TakeSkipInsertChains ==
    { <<"t">>, <<"s">>, <<"i">>, <<"n", "t">>, <<"v", "s">>, <<"b", "i">>,
      <<"x", ":", "1", "n", "t">>,
      <<"x", ":", "1", "t">>, <<"x", ":", "1", "i", "0">>, <<"a", ":", "1", "s">> }

\* chains of one logical op: well formed, without ':', without pattern, with
\* pattern characters other than 0 and 1
LogicalChains ==
    { <<"x", ":", "1", "0">>, <<"a", ":", "1", "0">>, <<"o", ":", "0">>,
      <<"x">>, <<"a", "1">>, <<"o", ":">>, <<"x", ":">>,
      <<"x", ":", "2">>, <<"a", ":", "1", "b">>, <<"o", ":", "z">> }

\* one outer logical op: well formed, without ':', without count, with a
\* count that is no number, without pattern, with a pattern that is not binary
LogicalTexts ==
    { <<"x", "8", ":", "1", "0">>, <<"a", "4", ":", "1">>, <<"o", "8", ":", "0", "1">>,
      <<"x", "8">>, <<"a", "1", "0">>, <<"x", ":", "1">>, <<"o", "z", ":", "1">>,
      <<"x", "8", ":">>, <<"x", "8", ":", "2">>, <<"a", "8", ":", "1", "z">>,
      <<"o", "8", ":", "1", ":">> }

\* the blocks and logical ops above, on one byte
ChainCalls ==
    {In(d, BlockOf(c), 0, 0) : d \in {<<b>> : b \in ByteVals},
                               c \in TakeSkipInsertChains \cup LogicalChains}
    \cup {In(d, c, 0, 0) : d \in {<<b>> : b \in ByteVals}, c \in LogicalTexts}

\* texts that are refused, on every non-empty input
RefusedCalls ==
    {In(d, c, s, e) :
        d \in BytesUpTo(MaxBytes) \ {<<>>},
        c \in {<<"[", "n", "8">>, <<"b", "7">>, <<"z", "5">>},
        s \in {0, 3}, e \in {0, 6}}

\* every byte value, as a one-byte input of the empty text
AllBytes == {In(<<b>>, <<>>, 0, 0) : b \in 0..255}

\* the same byte swaps made by a chain: "[b]n"
BlockSwapCalls ==
    {In(d, <<"[", "b", "]">> \o n, s, e) :
        d \in {<<1, 2, 3, 4>>, <<176, 65>>, <<176, 65, 1, 2>>},
        n \in {<<"8">>, <<"1", "6">>, <<"2", "4">>, <<"3", "2">>},
        s \in {0, 3, 4}, e \in {0, 11, 16, 19, 20, 27}}

\* blocks without ']', without count, with a bad chain and no count, inside
\* one another, after other commands
BracketCalls ==
    {In(d, c, 0, 0) :
        d \in {<<b>> : b \in ByteVals},
        c \in { <<"[", "n">>, <<"[">>, <<"[", "n", "]">>, <<"[", "n", "]", "x">>,
                <<"[", "t", "]">>, <<"[", "z", "]", "t", "8">>, <<"[", "]", "8">>,
                <<"[", "[", "n", "]", "8", "]", "8">>, <<"[", "n", "]", "8", "]">>,
                <<"[", "n", "]", "4", "[", "v", "]", "4">>,
                <<"t", "4", "[", "n", "]">>, <<"t", "4", "[", "n", "4">>,
                <<"[", "n", "]", "4", "t", "4">> }}

\* blocks whose chain holds two commands that fail, each with an error of
\* its own, before, between and after commands that do not fail
FailingChainCalls ==
    {In(d, BlockOf(c), 0, 0) :
        d \in {<<b>> : b \in ByteVals},
        c \in { <<"t", "z">>, <<"z", "t">>, <<"n", "z", "v", "t">>,
                <<"x", "n", "t">>, <<"n", "s", "x", ":">>, <<"x", ":", "n", "z">>,
                <<"v", "x", ":", "1", "n", "i", "z">> }}
    \cup {In(<<176>>, <<"[", "v", "n", "]", "4", "[", "n", "z", "v", "t", "]", "4">>, 0, 0)}

\* the runs that are repeated, over the whole input
RepeatedCalls == {In(d, c, 0, 0) : d \in BytesUpTo(MaxBytes), c \in Repeated}

Inputs == Generated \cup Ranges \cup Scenarios \cup SwapCalls \cup BlockSwapCalls \cup BracketCalls
          \cup ChainCalls \cup RefusedCalls
          \cup AllBytes
          \cup RepeatedCalls
          \cup FailingChainCalls

----------------------------------------------------------------------------
(* hamming: the bit helpers, encode, decode and their blocks *)

\* greatest parameter m of a run on a file
MaxM == 4
\* greatest parameter m of a single block
MaxBlockM == 3

\* a length no generated input has: the size a header stands for when one of
\* its bits above 2^30 is set
HugeSize == 1073741824

RECURSIVE BitAnd(_, _)
\* a & b on non-negative integers
BitAnd(a, b) ==
    IF a = 0 \/ b = 0 THEN 0
    ELSE (a % 2) * (b % 2) + 2 * BitAnd(a \div 2, b \div 2)

\* newBitReader(data)
newBitReader(d) == [data |-> d, byte |-> 0, bit |-> 0]

\* bitReader.Read(1): the error at the end of the data, else the next bit,
\* most significant first
bitReaderRead(r) ==
    IF r.byte >= Len(r.data) THEN [err |-> TRUE, val |-> 0, r |-> r]
    ELSE [err |-> FALSE,
          val |-> BitOf(At(r.data, r.byte), 7 - r.bit),
          r   |-> IF r.bit + 1 = 8 THEN [r EXCEPT !.bit = 0, !.byte = @ + 1]
                  ELSE [r EXCEPT !.bit = @ + 1]]

\* newBitWriter()
newBitWriter == [data |-> <<>>, byte |-> 0, bit |-> 0]

\* bitWriter.Write(val, 1): w.byte |= byte(bit << (7 - w.bit))
bitWriterWrite(w, val) ==
    LET bit == val % 2
        b   == IF bit = 1 /\ BitOf(w.byte, 7 - w.bit) = 0
               THEN w.byte + Pow2(7 - w.bit) ELSE w.byte
    IN IF w.bit + 1 = 8
       THEN [data |-> Append(w.data, b), byte |-> 0, bit |-> 0]
       ELSE [data |-> w.data, byte |-> b, bit |-> w.bit + 1]

RECURSIVE WriteFrom(_, _, _, _)
\* writer.Write(bit, 1) for the bits from index i to index last
WriteFrom(w, bits, i, last) ==
    IF i > last THEN w
    ELSE WriteFrom(bitWriterWrite(w, bits[i]), bits, i + 1, last)

RECURSIVE WriteChunks(_, _, _)
\* the bits from index i on, eight at a time
WriteChunks(w, bits, i) ==
    IF i > Len(bits) THEN w
    ELSE The({WriteChunks(x, bits, i + 8) :
                 x \in {WriteFrom(w, bits, i, Min(i + 7, Len(bits)))}})

\* for _, bit := range bits { writer.Write(bit, 1) }
WriteAll(w, bits) == The({WriteChunks(w, b, 1) : b \in {bits}})

\* bitWriter.Bytes()
Bytes(w) == IF w.bit > 0 THEN Append(w.data, w.byte) ELSE w.data

\* bit i of the 64-bit header: (size >> (63 - i)) & 1, size below 2^31
SizeBit(size, i) == IF 63 - i > 30 THEN 0 ELSE BitOf(size, 63 - i)

RECURSIVE ZeroFew(_, _)
\* bit, _ := reader.Read(1), count times: a failed read leaves a 0
ZeroFew(r, count) ==
    IF count <= 0 THEN [bits |-> <<>>, r |-> r]
    ELSE LET one  == bitReaderRead(r)
             more == ZeroFew(one.r, count - 1)
         IN [bits |-> <<one.val>> \o more.bits, r |-> more.r]

RECURSIVE ReadOrZero(_, _)
\* the same reads, eight at a time
ReadOrZero(r, count) ==
    IF count <= 8 THEN ZeroFew(r, count)
    ELSE The({The({[bits |-> a.bits \o b.bits, r |-> b.r] :
                      b \in {ReadOrZero(a.r, count - 8)}}) :
                 a \in {ZeroFew(r, 8)}})

RECURSIVE ReadFew(_, _)
\* the bits read until count are read or a read fails
ReadFew(r, count) ==
    IF count <= 0 THEN [bits |-> <<>>, r |-> r]
    ELSE LET one == bitReaderRead(r)
         IN IF one.err THEN [bits |-> <<>>, r |-> r]
            ELSE LET more == ReadFew(one.r, count - 1)
                 IN [bits |-> <<one.val>> \o more.bits, r |-> more.r]

RECURSIVE ReadUpTo(_, _)
\* the same reads, eight at a time
ReadUpTo(r, count) ==
    IF count <= 8 THEN ReadFew(r, count)
    ELSE The({IF Len(a.bits) < 8 THEN a
              ELSE The({[bits |-> a.bits \o b.bits, r |-> b.r] :
                           b \in {ReadUpTo(a.r, count - 8)}}) :
                 a \in {ReadFew(r, 8)}})

\* the xor of the bits of a sequence
XorAll(bits) == Cardinality({i \in 1..Len(bits) : bits[i] = 1}) % 2

\* (i > 0) && ((i & (i - 1)) == 0)
IsParityPos(i) == i > 0 /\ BitAnd(i, i - 1) = 0

RECURSIVE SetParities(_, _, _, _)
\* the second loop of encodeBlock from parity bit i on
SetParities(block, i, m, n) ==
    IF i >= m THEN block
    ELSE LET pPos   == Pow2(i)
             parity == Cardinality({j \in 1..n : j # pPos /\ BitAnd(j, pPos) # 0
                                                 /\ block[j] = 1}) % 2
         IN SetParities([block EXCEPT ![pPos] = parity], i + 1, m, n)

\* encodeBlock(dataBits, m)
encodeBlock(dataBits, m) ==
    LET n      == Pow2(m) - 1
        placed == [i \in 1..n |->
                     IF IsParityPos(i) THEN 0
                     ELSE At(dataBits,
                             Cardinality({j \in 1..(i - 1) : ~IsParityPos(j)}))]
    IN SetParities(placed, 0, m, n)

\* calculateSyndrome(block, m)
calculateSyndrome(block, m) ==
    LET n == Pow2(m) - 1
        Parity(pPos) == Cardinality({j \in 1..n : BitAnd(j, pPos) # 0
                                                   /\ j - 1 < Len(block)
                                                   /\ block[j] = 1}) % 2
        Sum[i \in 0..m] ==
            IF i = 0 THEN 0
            ELSE Sum[i - 1] + (IF Parity(Pow2(i - 1)) # 0 THEN Pow2(i - 1) ELSE 0)
    IN Sum[m]

LogCorrected(blockNum, pos) == <<"Corrected 1-bit error", blockNum, pos>>
LogUncorrectable(blockNum) == <<"Warning: Uncorrectable 2-bit error", blockNum>>

\* hammingBlock[syndrome-1] ^= 1 under the test syndrome-1 < len(hammingBlock)
Correct(hammingBlock, syndrome) ==
    IF syndrome - 1 < Len(hammingBlock)
    THEN [hammingBlock EXCEPT ![syndrome] = 1 - @]
    ELSE hammingBlock

RECURSIVE DataFrom(_, _, _)
\* the loop that collects the bits at the positions i with i & (i-1) != 0,
\* from position i to position last
DataFrom(hammingBlock, i, last) ==
    IF i > last THEN <<>>
    ELSE (IF i > 0 /\ BitAnd(i, i - 1) # 0 THEN <<hammingBlock[i]>> ELSE <<>>)
         \o DataFrom(hammingBlock, i + 1, last)

RECURSIVE DataJoin(_, _, _)
\* the data bits of the positions from 8c+1 on, eight positions at a time
DataJoin(hammingBlock, c, n) ==
    IF 8 * c >= n THEN <<>>
    ELSE The({part \o DataJoin(hammingBlock, c + 1, n) :
                 part \in {DataFrom(hammingBlock, 8 * c + 1, Min(8 * c + 8, n))}})

\* the data bits of a block in order
DataOf(hammingBlock) ==
    The({DataJoin(b, 0, Len(b)) : b \in {hammingBlock}})

\* variant: the syndrome is computed and never applied
decodeBlock_NoCorrection(block, m, extended, verb, blockNum) ==
    [dataBits |-> DataOf(IF extended THEN Tail(block) ELSE block),
     stderr   |-> <<>>]

\* decodeBlock(block, m, extended, verbose, blockNum): the data bits and
\* what is written to os.Stderr
decodeBlock(block, m, extended, verb, blockNum) ==
    LET hammingBlock == IF extended THEN Tail(block) ELSE block
        syndrome     == calculateSyndrome(hammingBlock, m)
        mismatch     == extended /\ XorAll(hammingBlock) # Head(block)
        fix          == syndrome # 0 /\ (~extended \/ mismatch)
        fixed        == IF fix THEN Correct(hammingBlock, syndrome)
                        ELSE hammingBlock
        stderr       == IF fix /\ syndrome - 1 < Len(hammingBlock) /\ verb
                        THEN <<LogCorrected(blockNum, syndrome)>>
                        ELSE IF extended /\ ~mismatch /\ syndrome # 0
                        THEN <<LogUncorrectable(blockNum)>>
                        ELSE <<>>
    IN [dataBits |-> DataOf(fixed), stderr |-> stderr]

\* what encode writes for one block of data bits: the overall parity first
\* in extended mode, then the Hamming block
WrittenBlock(dataBits, m, extended) ==
    LET hammingBlock == encodeBlock(dataBits, m)
    IN IF extended THEN <<XorAll(hammingBlock)>> \o hammingBlock
       ELSE hammingBlock

\* size = (size << 1) | bit over the 64 header bits
HeaderSize(bits) ==
    IF \E i \in 1..33 : bits[i] = 1 THEN HugeSize
    ELSE LET Shifted(size, i) == 2 * size + bits[i]
             Byte(size, i) ==
                 Shifted(Shifted(Shifted(Shifted(Shifted(Shifted(Shifted(Shifted(
                     size, i), i + 1), i + 2), i + 3), i + 4), i + 5), i + 6), i + 7)
         IN Byte(Byte(Byte(Byte(0, 33), 41), 49), 57)

----------------------------------------------------------------------------
(* hamming: a run of main, a run on the output of the run before, and a
   block sent over a line that flips bits *)

\* main with -encode, encode up to its block loop: the reader, the writer,
\* the 64 bits of len(data)
EncodeStart ==
    /\ hamPc = "start"
    /\ hamMode = "encode"
    /\ hamReader' = newBitReader(hamData)
    /\ hamWriter' = WriteAll(newBitWriter,
                             [i \in 1..64 |-> SizeBit(Len(hamData), i - 1)])
    /\ hamPc' = "blocks"
    /\ UNCHANGED <<hamMode, hamData, hamM, hamExtended, hamVerbose, hamOut,
                   hamStderr, hamFirst, hamSize, hamBlockNum, hamBits, hamBlock,
                   hamFlips>>
    /\ UNCHANGED <<editorVars, lfsrVars, interleaverVars>>

\* one turn of the block loop of encode; when the first read fails the loop
\* ends, writer.Bytes() is returned and main writes it
EncodeStep ==
    /\ hamPc = "blocks"
    /\ hamMode = "encode"
    /\ LET k     == Pow2(hamM) - 1 - hamM
           first == bitReaderRead(hamReader)
           rest  == ReadOrZero(first.r, k - 1)
       IN IF first.err
          THEN /\ hamOut' = Bytes(hamWriter)
               /\ hamPc' = "done"
               /\ UNCHANGED <<hamReader, hamWriter>>
          ELSE /\ hamReader' = rest.r
               /\ hamWriter' = WriteAll(hamWriter,
                                        WrittenBlock(<<first.val>> \o rest.bits,
                                                     hamM, hamExtended))
               /\ UNCHANGED <<hamOut, hamPc>>
    /\ UNCHANGED <<hamMode, hamData, hamM, hamExtended, hamVerbose, hamStderr,
                   hamFirst, hamSize, hamBlockNum, hamBits, hamBlock, hamFlips>>
    /\ UNCHANGED <<editorVars, lfsrVars, interleaverVars>>

\* main with -decode, decode up to its block loop: the 64 bits of the size,
\* log.Fatal when they are not all there
DecodeStart ==
    /\ hamPc = "start"
    /\ hamMode = "decode"
    /\ LET head == ReadUpTo(newBitReader(hamData), 64)
       IN IF Len(head.bits) < 64
          THEN /\ hamPc' = "fatal"
               /\ UNCHANGED <<hamReader, hamWriter, hamSize, hamBlockNum>>
          ELSE /\ hamPc' = "blocks"
               /\ hamReader' = head.r
               /\ hamSize' = HeaderSize(head.bits)
               /\ hamWriter' = newBitWriter
               /\ hamBlockNum' = 0
    /\ UNCHANGED <<hamMode, hamData, hamM, hamExtended, hamVerbose, hamOut,
                   hamStderr, hamFirst, hamBits, hamBlock, hamFlips>>
    /\ UNCHANGED <<editorVars, lfsrVars, interleaverVars>>

\* variant: the decoded bytes are returned whole
DecodeStep_Untruncated ==
    /\ hamPc = "blocks"
    /\ hamMode = "decode"
    /\ LET n    == IF hamExtended THEN Pow2(hamM) ELSE Pow2(hamM) - 1
           read == ReadUpTo(hamReader, n)
           dec  == decodeBlock(read.bits, hamM, hamExtended, hamVerbose,
                               hamBlockNum)
       IN IF Len(read.bits) < n
          THEN /\ hamOut' = Bytes(hamWriter)
               /\ hamPc' = "done"
               /\ UNCHANGED <<hamReader, hamWriter, hamStderr, hamBlockNum>>
          ELSE /\ hamReader' = read.r
               /\ hamWriter' = WriteAll(hamWriter, dec.dataBits)
               /\ hamStderr' = hamStderr \o dec.stderr
               /\ hamBlockNum' = hamBlockNum + 1
               /\ UNCHANGED <<hamOut, hamPc>>
    /\ UNCHANGED <<hamMode, hamData, hamM, hamExtended, hamVerbose, hamFirst,
                   hamSize, hamBits, hamBlock, hamFlips>>
    /\ UNCHANGED <<editorVars, lfsrVars, interleaverVars>>

\* one turn of the block loop of decode; a block that cannot be read whole
\* ends the loop, the decoded bytes are cut to the size and main writes them
DecodeStep ==
    /\ hamPc = "blocks"
    /\ hamMode = "decode"
    /\ LET n    == IF hamExtended THEN Pow2(hamM) ELSE Pow2(hamM) - 1
           read == ReadUpTo(hamReader, n)
           dec  == decodeBlock(read.bits, hamM, hamExtended, hamVerbose,
                               hamBlockNum)
           decodedData == Bytes(hamWriter)
       IN IF Len(read.bits) < n
          THEN /\ hamOut' = IF Len(decodedData) > hamSize
                            THEN Slice(decodedData, 0, hamSize)
                            ELSE decodedData
               /\ hamPc' = "done"
               /\ UNCHANGED <<hamReader, hamWriter, hamStderr, hamBlockNum>>
          ELSE /\ hamReader' = read.r
               /\ hamWriter' = WriteAll(hamWriter, dec.dataBits)
               /\ hamStderr' = hamStderr \o dec.stderr
               /\ hamBlockNum' = hamBlockNum + 1
               /\ UNCHANGED <<hamOut, hamPc>>
    /\ UNCHANGED <<hamMode, hamData, hamM, hamExtended, hamVerbose, hamFirst,
                   hamSize, hamBits, hamBlock, hamFlips>>
    /\ UNCHANGED <<editorVars, lfsrVars, interleaverVars>>

\* the file -encode wrote is given to -decode with the same -m and -extended
DecodeEncoded ==
    /\ hamPc = "done"
    /\ hamMode = "encode"
    /\ hamFirst' = hamData
    /\ hamData' = hamOut
    /\ hamMode' = "decode"
    /\ hamOut' = <<>>
    /\ hamPc' = "start"
    /\ hamReader' = newBitReader(<<>>)
    /\ hamWriter' = newBitWriter
    /\ UNCHANGED <<hamM, hamExtended, hamVerbose, hamStderr, hamSize,
                   hamBlockNum, hamBits, hamBlock, hamFlips>>
    /\ UNCHANGED <<editorVars, lfsrVars, interleaverVars>>

\* one block of encode: encodeBlock and, in extended mode, the parity bit
EncodeBlock ==
    /\ hamPc = "start"
    /\ hamMode = "block"
    /\ hamBlock' = WrittenBlock(hamBits, hamM, hamExtended)
    /\ hamPc' = "sent"
    /\ UNCHANGED <<hamMode, hamData, hamM, hamExtended, hamVerbose, hamOut,
                   hamStderr, hamFirst, hamReader, hamWriter, hamSize,
                   hamBlockNum, hamBits, hamFlips>>
    /\ UNCHANGED <<editorVars, lfsrVars, interleaverVars>>

\* the line flips one bit of the block; a burst may take the second bit
\* after the first
FlipBit ==
    /\ hamPc = "sent"
    /\ hamFlips \in {{}, {1}}
    /\ \E p \in {q \in 1..Len(hamBlock) : hamFlips = {1} => q = 2} :
          /\ hamBlock' = [hamBlock EXCEPT ![p] = 1 - @]
          /\ hamFlips' = hamFlips \cup {p}
    /\ UNCHANGED <<hamMode, hamData, hamM, hamExtended, hamVerbose, hamOut,
                   hamStderr, hamFirst, hamReader, hamWriter, hamSize,
                   hamBlockNum, hamBits, hamPc>>
    /\ UNCHANGED <<editorVars, lfsrVars, interleaverVars>>

\* one block of decode: decodeBlock on the block as received
DecodeBlock ==
    /\ hamPc = "sent"
    /\ LET r == decodeBlock(hamBlock, hamM, hamExtended, hamVerbose, 0)
       IN /\ hamOut' = r.dataBits
          /\ hamStderr' = r.stderr
    /\ hamPc' = "received"
    /\ UNCHANGED <<hamMode, hamData, hamM, hamExtended, hamVerbose, hamFirst,
                   hamReader, hamWriter, hamSize, hamBlockNum, hamBits,
                   hamBlock, hamFlips>>
    /\ UNCHANGED <<editorVars, lfsrVars, interleaverVars>>

HammingNext ==
    \/ EncodeStart
    \/ EncodeStep
    \/ DecodeStart
    \/ DecodeStep
    \/ DecodeEncoded
    \/ EncodeBlock
    \/ FlipBit
    \/ DecodeBlock

\* no run of hamming
HammingIdle ==
    /\ hamMode = "none"
    /\ hamData = <<>>
    /\ hamM = 0
    /\ hamExtended = FALSE
    /\ hamVerbose = FALSE
    /\ hamOut = <<>>
    /\ hamStderr = <<>>
    /\ hamPc = "none"
    /\ hamFirst = NilBytes
    /\ hamBits = <<>>
    /\ hamBlock = <<>>
    /\ hamFlips = {}
    /\ hamReader = newBitReader(<<>>)
    /\ hamWriter = newBitWriter
    /\ hamSize = 0
    /\ hamBlockNum = 0

----------------------------------------------------------------------------
(* lfsr: the arguments, the parsers, the bit reader and the bit writer *)

\* highest tap of a generated polynomial
MaxDegree == 4

ErrCipherArgs == "-p and -s are required for cipher mode"
ErrScrambleArgs == "-p is required for scramble mode"
ErrDescrambleArgs == "-p is required for descramble mode"
ErrInvalidTap == "invalid tap value"
ErrTapNotPositive == "tap values must be positive"
ErrSeedChar == "invalid character in seed string"
ErrSeedLength == "seed length must match the polynomial degree"

\* no run before this one
NoRun == [input |-> NilBytes]

\* the greatest element of a non-empty set of integers
Greatest(S) == CHOOSE i \in S : \A j \in S : j <= i

\* strings.Split(s, sep): the parts between the separators, at least one part
RECURSIVE Split(_, _)
Split(s, sep) ==
    LET i == IndexRune(s, sep)
    IN IF i = -1 THEN <<s>>
       ELSE <<Slice(s, 0, i)>> \o Split(Slice(s, i + 1, Len(s)), sep)

\* strings.TrimSpace(s), the white space of the texts being " "
TrimSpace(s) ==
    LET ink == {k \in 1..Len(s) : s[k] # " "}
    IN IF ink = {} THEN <<>> ELSE SubSeq(s, Least(ink), Greatest(ink))

\* parsePoly: the taps in the order written, the degree their maximum;
\* the first part that is no positive number decides the error
parsePoly(s) ==
    LET parts == Split(s, ",")
        nums  == [k \in 1..Len(parts) |-> Atoi(TrimSpace(parts[k]))]
        bad   == {k \in 1..Len(parts) : ~nums[k].ok \/ nums[k].val <= 0}
    IN IF bad # {}
       THEN [err    |-> IF nums[Least(bad)].ok THEN ErrTapNotPositive
                        ELSE ErrInvalidTap,
             taps   |-> <<>>,
             degree |-> 0]
       ELSE [err    |-> NoErr,
             taps   |-> [k \in 1..Len(parts) |-> nums[k].val],
             degree |-> Greatest({nums[k].val : k \in 1..Len(parts)})]

\* parseSeed: one register cell per character, "0" or "1"
parseSeed(s) ==
    IF \E k \in 1..Len(s) : s[k] \notin {"0", "1"}
    THEN [err |-> ErrSeedChar, seed |-> <<>>]
    ELSE [err |-> NoErr, seed |-> [k \in 1..Len(s) |-> IF s[k] = "1" THEN 1 ELSE 0]]

\* make([]byte, degree)
Zeros(n) == [k \in 1..n |-> 0]

\* NewBitReader over the bytes of the input, NewBitWriter over an empty output
NewBitReader(bytes) == [reader |-> bytes, buffer |-> 0, offset |-> 0]
NewBitWriter == [writer |-> <<>>, buffer |-> 0, offset |-> 0]

\* BitReader.Read(1): a new byte is fetched when offset is 0 or above 7;
\* the bit is (buffer >> (7 - offset)) & 1
Read(br) ==
    LET fetch == br.offset = 0 \/ br.offset > 7
        cur   == IF fetch /\ br.reader # <<>>
                 THEN [reader |-> Tail(br.reader), buffer |-> Head(br.reader),
                       offset |-> 0]
                 ELSE br
    IN IF fetch /\ br.reader = <<>>
       THEN [eof |-> TRUE, bit |-> 0, br |-> br]
       ELSE [eof |-> FALSE,
             bit |-> BitOf(cur.buffer, 7 - cur.offset),
             br  |-> [cur EXCEPT !.offset = @ + 1]]

\* BitWriter.flushByte
flushByte(bw) ==
    IF bw.offset = 0 THEN bw
    ELSE [writer |-> Append(bw.writer, bw.buffer), buffer |-> 0, offset |-> 0]

\* BitWriter.Write of one bit: buffer |= 1 << (7 - offset) when the bit is 1
Write(bw, bit) ==
    LET set  == IF bit = 1 /\ BitOf(bw.buffer, 7 - bw.offset) = 0
                THEN bw.buffer + Pow2(7 - bw.offset) ELSE bw.buffer
        next == [bw EXCEPT !.buffer = set, !.offset = @ + 1]
    IN IF next.offset = 8 THEN flushByte(next) ELSE next

\* BitWriter.Close
Close(bw) == flushByte(bw)

\* feedbackBit: the xor of state[tap-1] over the taps, a repeated tap
\* counted each time
RECURSIVE FeedbackBit(_, _)
FeedbackBit(taps, st) ==
    IF taps = <<>> THEN 0
    ELSE (FeedbackBit(Tail(taps), st) + At(st, Head(taps) - 1)) % 2

\* copy(state[1:], state[:degree-1]); state[0] = in
Shift(st, deg, in) == [k \in 1..deg |-> IF k = 1 THEN in ELSE st[k - 1]]

\* dataBit ^ bit
BitXor(a, b) == (a + b) % 2

----------------------------------------------------------------------------
(* lfsr: one run of a mode, and a second run on the output of the first *)

\* the head of runCipherMode, runScrambleMode and runDescrambleMode: the
\* arguments are checked and parsed, the register is filled
OpenRun ==
    /\ lfsrPc = "start"
    /\ LET p == parsePoly(polyStr)
           s == parseSeed(seedStr)
           e == CASE lfsrMode = "cipher" /\ (polyStr = <<>> \/ seedStr = <<>>)
                       -> ErrCipherArgs
                  [] lfsrMode = "scramble" /\ polyStr = <<>> -> ErrScrambleArgs
                  [] lfsrMode = "descramble" /\ polyStr = <<>> -> ErrDescrambleArgs
                  [] OTHER ->
                       IF p.err # NoErr THEN p.err
                       ELSE IF lfsrMode # "cipher" THEN NoErr
                       ELSE IF s.err # NoErr THEN s.err
                       ELSE IF Len(s.seed) # p.degree THEN ErrSeedLength
                       ELSE NoErr
       IN /\ lfsrErr' = e
          /\ IF e # NoErr
             THEN /\ lfsrPc' = "done"
                  /\ UNCHANGED <<poly, degree, state, bitReader, bitWriter>>
             ELSE /\ lfsrPc' = "loop"
                  /\ poly' = p.taps
                  /\ degree' = p.degree
                  /\ state' = IF lfsrMode = "cipher" THEN s.seed
                              ELSE Zeros(p.degree)
                  /\ bitReader' = NewBitReader(lfsrInput)
                  /\ bitWriter' = NewBitWriter
    /\ UNCHANGED <<lfsrMode, polyStr, seedStr, lfsrInput, stateTrace, firstRun>>
    /\ UNCHANGED <<editorVars, hammingVars, interleaverVars>>

\* the end of the input: break, bitWriter.Close(), return nil
EndOfInput ==
    /\ lfsrPc = "loop"
    /\ Read(bitReader).eof
    /\ bitWriter' = Close(bitWriter)
    /\ lfsrPc' = "done"
    /\ UNCHANGED <<lfsrMode, polyStr, seedStr, lfsrInput, poly, degree, state,
                   bitReader, lfsrErr, stateTrace, firstRun>>
    /\ UNCHANGED <<editorVars, hammingVars, interleaverVars>>

\* variant: the register is fed with the output bit
runCipherMode_FedByOutput ==
    /\ lfsrPc = "loop"
    /\ lfsrMode = "cipher"
    /\ LET r == Read(bitReader)
       IN /\ ~r.eof
          /\ LET dataBit      == r.bit
                 keystreamBit == At(state, degree - 1)
                 outputBit    == BitXor(dataBit, keystreamBit)
             IN /\ state' = Shift(state, degree, outputBit)
                /\ bitWriter' = Write(bitWriter, outputBit)
          /\ bitReader' = r.br
    /\ stateTrace' = Append(stateTrace, state)
    /\ UNCHANGED <<lfsrMode, polyStr, seedStr, lfsrInput, poly, degree, lfsrPc,
                   lfsrErr, firstRun>>
    /\ UNCHANGED <<editorVars, hammingVars, interleaverVars>>

\* one turn of the loop of runCipherMode
runCipherMode ==
    /\ lfsrPc = "loop"
    /\ lfsrMode = "cipher"
    /\ LET r == Read(bitReader)
       IN /\ ~r.eof
          /\ LET dataBit      == r.bit
                 keystreamBit == At(state, degree - 1)
                 feedbackBit  == FeedbackBit(poly, state)
                 outputBit    == BitXor(dataBit, keystreamBit)
             IN /\ state' = Shift(state, degree, feedbackBit)
                /\ bitWriter' = Write(bitWriter, outputBit)
          /\ bitReader' = r.br
    /\ stateTrace' = Append(stateTrace, state)
    /\ UNCHANGED <<lfsrMode, polyStr, seedStr, lfsrInput, poly, degree, lfsrPc,
                   lfsrErr, firstRun>>
    /\ UNCHANGED <<editorVars, hammingVars, interleaverVars>>

\* one turn of the loop of runScrambleMode
runScrambleMode ==
    /\ lfsrPc = "loop"
    /\ lfsrMode = "scramble"
    /\ LET r == Read(bitReader)
       IN /\ ~r.eof
          /\ LET dataBit     == r.bit
                 feedbackBit == FeedbackBit(poly, state)
                 outputBit   == BitXor(dataBit, feedbackBit)
             IN /\ state' = Shift(state, degree, outputBit)
                /\ bitWriter' = Write(bitWriter, outputBit)
          /\ bitReader' = r.br
    /\ stateTrace' = Append(stateTrace, state)
    /\ UNCHANGED <<lfsrMode, polyStr, seedStr, lfsrInput, poly, degree, lfsrPc,
                   lfsrErr, firstRun>>
    /\ UNCHANGED <<editorVars, hammingVars, interleaverVars>>

\* variant: the register is fed with the descrambled bit
runDescrambleMode_FedByOutput ==
    /\ lfsrPc = "loop"
    /\ lfsrMode = "descramble"
    /\ LET r == Read(bitReader)
       IN /\ ~r.eof
          /\ LET dataBit     == r.bit
                 feedbackBit == FeedbackBit(poly, state)
                 outputBit   == BitXor(dataBit, feedbackBit)
             IN /\ state' = Shift(state, degree, outputBit)
                /\ bitWriter' = Write(bitWriter, outputBit)
          /\ bitReader' = r.br
    /\ stateTrace' = Append(stateTrace, state)
    /\ UNCHANGED <<lfsrMode, polyStr, seedStr, lfsrInput, poly, degree, lfsrPc,
                   lfsrErr, firstRun>>
    /\ UNCHANGED <<editorVars, hammingVars, interleaverVars>>

\* one turn of the loop of runDescrambleMode
runDescrambleMode ==
    /\ lfsrPc = "loop"
    /\ lfsrMode = "descramble"
    /\ LET r == Read(bitReader)
       IN /\ ~r.eof
          /\ LET dataBit     == r.bit
                 feedbackBit == FeedbackBit(poly, state)
                 outputBit   == BitXor(dataBit, feedbackBit)
             IN /\ state' = Shift(state, degree, dataBit)
                /\ bitWriter' = Write(bitWriter, outputBit)
          /\ bitReader' = r.br
    /\ stateTrace' = Append(stateTrace, state)
    /\ UNCHANGED <<lfsrMode, polyStr, seedStr, lfsrInput, poly, degree, lfsrPc,
                   lfsrErr, firstRun>>
    /\ UNCHANGED <<editorVars, hammingVars, interleaverVars>>

\* the tool is run again on the file it wrote, with the same -p and -s:
\* cipher after cipher, descramble after scramble
SecondRun ==
    /\ lfsrPc = "done"
    /\ lfsrErr = NoErr
    /\ firstRun = NoRun
    /\ lfsrMode \in {"cipher", "scramble"}
    /\ firstRun' = [input |-> lfsrInput, states |-> stateTrace]
    /\ lfsrInput' = bitWriter.writer
    /\ lfsrMode' = IF lfsrMode = "cipher" THEN "cipher" ELSE "descramble"
    /\ lfsrPc' = "start"
    /\ stateTrace' = <<>>
    /\ poly' = <<>>
    /\ degree' = 0
    /\ state' = <<>>
    /\ bitReader' = NewBitReader(<<>>)
    /\ bitWriter' = NewBitWriter
    /\ UNCHANGED <<polyStr, seedStr, lfsrErr>>
    /\ UNCHANGED <<editorVars, hammingVars, interleaverVars>>

LfsrNext ==
    \/ OpenRun
    \/ EndOfInput
    \/ runCipherMode
    \/ runScrambleMode
    \/ runDescrambleMode
    \/ SecondRun

\* the decimal text of a tap below 10
TapText(n) == <<The({"1", "2", "3", "4", "5", "6", "7", "8", "9"}
                    \cap {c \in Digits : Ord(c) - Ord("0") = n})>>

\* the -p texts: one tap or two taps up to MaxDegree in either order, a tap
\* written twice included, then texts with blanks and texts parsePoly refuses
PolyTexts ==
    {TapText(a) : a \in 1..MaxDegree}
    \cup {TapText(a) \o <<",">> \o TapText(b) : a, b \in 1..MaxDegree}
    \cup {<<"3", ",", " ", "1">>, <<" ", "2", " ">>, <<"3", ",", "2", ",", "1">>}
    \cup {<<>>, <<"0">>, <<"2", ",">>, <<"-", "1">>, <<"z">>}

\* the -s texts: every fill of a register up to MaxDegree cells, and texts
\* parseSeed or the length test refuses
SeedTexts ==
    UNION {[1..n -> {"0", "1"}] : n \in 1..MaxDegree}
    \cup {<<>>, <<"1", "2">>}

\* the state before a run of the editor model: no lfsr run
LfsrIdle ==
    /\ lfsrMode = "none"
    /\ polyStr = <<>>
    /\ seedStr = <<>>
    /\ lfsrInput = <<>>
    /\ poly = <<>>
    /\ degree = 0
    /\ state = <<>>
    /\ bitReader = NewBitReader(<<>>)
    /\ bitWriter = NewBitWriter
    /\ lfsrPc = "none"
    /\ lfsrErr = NoErr
    /\ stateTrace = <<>>
    /\ firstRun = NoRun

----------------------------------------------------------------------------
(* interleaver: the pattern, processInterleave, the element reads and writes
   (BitReader and BitWriter of interleaver.go are those of lfsr, bytesToBits
   and bitsToBytes those of bit-editor) *)

\* longest generated permutation pattern
MaxPattern == 3
\* most input files of a mux run
MaxFiles == 3

ErrElementSize == "-s <size> is a required flag and must be > 0"
ErrPermuteWithFiles == "-p cannot be used with multiple input files or --split"
ErrMuxWithSplit == "cannot combine multiple input files and --split"
ErrNoMode == "invalid combination of flags"
ErrPatternValue == "invalid pattern: contains non-integer value"
ErrNotPermutation == "invalid pattern: must be a valid permutation of 0..N-1"

\* isPermutation(p): every value in 0..n-1 and none seen before
isPermutation(p) ==
    /\ \A i \in 1..Len(p) : p[i] >= 0 /\ p[i] < Len(p)
    /\ \A i, j \in 1..Len(p) : i # j => p[i] # p[j]

\* parsePattern(patternStr)
parsePattern(s) ==
    The({ IF \E k \in 1..Len(nums) : ~nums[k].ok
          THEN [err |-> ErrPatternValue, pattern |-> <<>>]
          ELSE The({ IF ~isPermutation(vals)
                     THEN [err |-> ErrNotPermutation, pattern |-> <<>>]
                     ELSE [err |-> NoErr, pattern |-> vals] :
                     vals \in {[k \in 1..Len(nums) |-> nums[k].val]} }) :
          nums \in { [k \in 1..Len(parts) |-> Atoi(TrimSpace(parts[k]))] :
                     parts \in {Split(s, ",")} } })

\* variant: the pattern is returned as its own inverse
invertPattern_Same(pattern) == pattern

\* invertPattern(pattern): inverse[p] = i for every i, p := range pattern
invertPattern(pattern) ==
    [k \in 1..Len(pattern) |->
        The({i \in 0..(Len(pattern) - 1) : At(pattern, i) = k - 1})]

\* the loop of processInterleave: output bit t comes from its chunk of
\* len(pattern) elements; in a chunk of blockSize whole elements, element j
\* is element pattern[j] of the input chunk, any other chunk is written as
\* it is
Interleaved(inBits, pattern, size) ==
    [u \in 1..Len(inBits) |->
        LET t    == u - 1
            blockSizeInBits == Len(pattern) * size
            i    == (t \div blockSizeInBits) * blockSizeInBits
            end  == Min(i + blockSizeInBits, Len(inBits))
            numElementsInChunk == (end - i) \div size
            j    == (t - i) \div size
        IN IF numElementsInChunk = Len(pattern)
           THEN At(inBits, i + At(pattern, j) * size + ((t - i) % size))
           ELSE At(inBits, t)]

\* processInterleave(data, patternStr, size, inverse) for an element size > 0
processInterleave(d, s, size, inv) ==
    The({ IF parsed.err # NoErr THEN [err |-> parsed.err, out |-> NilBytes]
          ELSE The({ [err |-> NoErr, out |-> bitsToBytes(outBits)] :
                     outBits \in { Interleaved(inBits, pattern, size) :
                                   inBits \in {bytesToBits(d)},
                                   pattern \in {IF inv THEN invertPattern(parsed.pattern)
                                                ELSE parsed.pattern} } }) :
          parsed \in {parsePattern(s)} })

RECURSIVE ReadN(_, _)
\* BitReader.Read(n): the bits read before the end of the file, and whether
\* the end was met
ReadN(br, n) ==
    IF n = 0 THEN [bits |-> <<>>, err |-> FALSE, br |-> br]
    ELSE LET one == Read(br)
         IN IF one.eof THEN [bits |-> <<>>, err |-> TRUE, br |-> br]
            ELSE LET more == ReadN(one.br, n - 1)
                 IN [bits |-> <<one.bit>> \o more.bits, err |-> more.err,
                     br |-> more.br]

RECURSIVE WriteBitsFrom(_, _, _)
\* BitWriter.Write(bits) for the bits from index i on, each write done
\* before the next
WriteBitsFrom(bw, bits, i) ==
    IF i > Len(bits) THEN bw
    ELSE The({WriteBitsFrom(w, bits, i + 1) : w \in {Write(bw, bits[i])}})

\* BitWriter.Write(bits)
WriteBits(bw, bits) == The({WriteBitsFrom(bw, b, 1) : b \in {bits}})

RECURSIVE MuxReads(_, _, _, _)
\* the inner loop of runMuxMode from reader i on: each reader reads one
\* element, what it read is written, the readers that met the end are counted
MuxReads(readers, bw, n, i) ==
    IF i > Len(readers) THEN [readers |-> readers, bw |-> bw, filesAtEOF |-> 0]
    ELSE The({The({The({[readers    |-> rest.readers,
                         bw         |-> rest.bw,
                         filesAtEOF |-> rest.filesAtEOF
                                        + (IF r.err THEN 1 ELSE 0)] :
                           rest \in {MuxReads([readers EXCEPT ![i] = r.br],
                                              w, n, i + 1)}}) :
                      w \in {WriteBits(bw, r.bits)}}) :
                 r \in {ReadN(readers[i], n)}})

----------------------------------------------------------------------------
(* interleaver: a run of main in one of its modes, and a run on the output
   of the run before *)

\* main with -p: the checks of main, runPermuteMode, processInterleave
runPermuteMode ==
    /\ ilvPc = "start"
    /\ ilvMode = "permute"
    /\ LET r == processInterleave(ilvInput, patternStr, elementSize, inverse)
           e == IF elementSize <= 0 THEN ErrElementSize
                ELSE IF splitN > 0 THEN ErrPermuteWithFiles
                ELSE The({x.err : x \in {r}})
       IN /\ ilvErr' = e
          /\ ilvOut' = IF e = NoErr THEN r.out ELSE NilBytes
    /\ ilvPc' = "done"
    /\ UNCHANGED <<ilvMode, patternStr, elementSize, inverse, splitN, ilvInput,
                   muxFiles, bitReaders, bitWriters, streamIndex, ilvFirst>>
    /\ UNCHANGED <<editorVars, lfsrVars, hammingVars>>

\* the output of the run with -p is run again with -inverse and the same -p
\* and -s
PermuteBack ==
    /\ ilvPc = "done"
    /\ ilvMode = "permute"
    /\ ilvErr = NoErr
    /\ ~inverse
    /\ ilvFirst = NoFiles
    /\ ilvFirst' = <<ilvInput>>
    /\ ilvInput' = ilvOut
    /\ inverse' = TRUE
    /\ ilvOut' = NilBytes
    /\ ilvPc' = "start"
    /\ UNCHANGED <<ilvMode, patternStr, elementSize, splitN, muxFiles,
                   bitReaders, bitWriters, streamIndex, ilvErr>>
    /\ UNCHANGED <<editorVars, lfsrVars, hammingVars>>

\* main with input files: the checks of main, runMuxMode up to its loop
MuxOpen ==
    /\ ilvPc = "start"
    /\ ilvMode = "mux"
    /\ LET e == IF elementSize <= 0 THEN ErrElementSize
                ELSE IF splitN > 0 THEN ErrMuxWithSplit
                ELSE NoErr
       IN /\ ilvErr' = e
          /\ IF e # NoErr
             THEN /\ ilvPc' = "done"
                  /\ UNCHANGED <<bitReaders, bitWriters>>
             ELSE /\ ilvPc' = "loop"
                  /\ bitReaders' = [i \in 1..Len(muxFiles) |->
                                       NewBitReader(muxFiles[i])]
                  /\ bitWriters' = <<NewBitWriter>>
    /\ UNCHANGED <<ilvMode, patternStr, elementSize, inverse, splitN, ilvInput,
                   muxFiles, streamIndex, ilvOut, ilvFirst>>
    /\ UNCHANGED <<editorVars, lfsrVars, hammingVars>>

\* variant: the readers are served last to first
MuxRound_LastFirst ==
    /\ ilvPc = "loop"
    /\ ilvMode = "mux"
    /\ LET k   == Len(bitReaders)
           rev == [i \in 1..k |-> bitReaders[k + 1 - i]]
           r   == MuxReads(rev, bitWriters[1], elementSize, 1)
       IN /\ bitReaders' = [i \in 1..k |-> r.readers[k + 1 - i]]
          /\ IF r.filesAtEOF >= k
             THEN /\ bitWriters' = <<Close(r.bw)>>
                  /\ ilvOut' = Close(r.bw).writer
                  /\ ilvPc' = "done"
             ELSE /\ bitWriters' = <<r.bw>>
                  /\ UNCHANGED <<ilvOut, ilvPc>>
    /\ UNCHANGED <<ilvMode, patternStr, elementSize, inverse, splitN, ilvInput,
                   muxFiles, streamIndex, ilvErr, ilvFirst>>
    /\ UNCHANGED <<editorVars, lfsrVars, hammingVars>>

\* one turn of the outer loop of runMuxMode; when every reader has met the
\* end the writer is closed
MuxRound ==
    /\ ilvPc = "loop"
    /\ ilvMode = "mux"
    /\ LET r == MuxReads(bitReaders, bitWriters[1], elementSize, 1)
       IN /\ bitReaders' = r.readers
          /\ IF r.filesAtEOF >= Len(bitReaders)
             THEN /\ bitWriters' = <<Close(r.bw)>>
                  /\ ilvOut' = Close(r.bw).writer
                  /\ ilvPc' = "done"
             ELSE /\ bitWriters' = <<r.bw>>
                  /\ UNCHANGED <<ilvOut, ilvPc>>
    /\ UNCHANGED <<ilvMode, patternStr, elementSize, inverse, splitN, ilvInput,
                   muxFiles, streamIndex, ilvErr, ilvFirst>>
    /\ UNCHANGED <<editorVars, lfsrVars, hammingVars>>

\* main with --split: the checks of main, runDeMuxMode up to its loop
DemuxOpen ==
    /\ ilvPc = "start"
    /\ ilvMode = "demux"
    /\ LET e == IF elementSize <= 0 THEN ErrElementSize
                ELSE IF splitN <= 0 THEN ErrNoMode
                ELSE NoErr
       IN /\ ilvErr' = e
          /\ IF e # NoErr
             THEN /\ ilvPc' = "done"
                  /\ UNCHANGED <<bitReaders, bitWriters, streamIndex>>
             ELSE /\ ilvPc' = "loop"
                  /\ bitReaders' = <<NewBitReader(ilvInput)>>
                  /\ bitWriters' = [i \in 1..splitN |-> NewBitWriter]
                  /\ streamIndex' = 0
    /\ UNCHANGED <<ilvMode, patternStr, elementSize, inverse, splitN, ilvInput,
                   muxFiles, ilvOut, ilvFirst>>
    /\ UNCHANGED <<editorVars, lfsrVars, hammingVars>>

\* one turn of the loop of runDeMuxMode; at the end of the input every
\* writer is closed
DemuxStep ==
    /\ ilvPc = "loop"
    /\ ilvMode = "demux"
    /\ LET r == ReadN(bitReaders[1], elementSize)
           w == [bitWriters EXCEPT ![streamIndex + 1] = WriteBits(@, r.bits)]
       IN /\ bitReaders' = <<r.br>>
          /\ IF r.err
             THEN /\ bitWriters' = [i \in 1..Len(w) |-> Close(w[i])]
                  /\ ilvPc' = "done"
                  /\ UNCHANGED streamIndex
             ELSE /\ bitWriters' = w
                  /\ streamIndex' = (streamIndex + 1) % splitN
                  /\ ilvPc' = ilvPc
    /\ UNCHANGED <<ilvMode, patternStr, elementSize, inverse, splitN, ilvInput,
                   muxFiles, ilvOut, ilvErr, ilvFirst>>
    /\ UNCHANGED <<editorVars, lfsrVars, hammingVars>>

\* the file the mux run wrote is split again: --split with the number of
\* input files and the same -s
DemuxMuxed ==
    /\ ilvPc = "done"
    /\ ilvMode = "mux"
    /\ ilvErr = NoErr
    /\ ilvFirst' = muxFiles
    /\ ilvInput' = ilvOut
    /\ splitN' = Len(muxFiles)
    /\ muxFiles' = <<>>
    /\ ilvMode' = "demux"
    /\ ilvPc' = "start"
    /\ bitReaders' = <<>>
    /\ bitWriters' = <<>>
    /\ UNCHANGED <<patternStr, elementSize, inverse, streamIndex, ilvOut, ilvErr>>
    /\ UNCHANGED <<editorVars, lfsrVars, hammingVars>>

InterleaverNext ==
    \/ runPermuteMode
    \/ PermuteBack
    \/ MuxOpen
    \/ MuxRound
    \/ DemuxOpen
    \/ DemuxStep
    \/ DemuxMuxed

\* no run of interleaver
InterleaverIdle ==
    /\ ilvMode = "none"
    /\ patternStr = <<>>
    /\ elementSize = 0
    /\ inverse = FALSE
    /\ splitN = 0
    /\ ilvInput = <<>>
    /\ muxFiles = <<>>
    /\ bitReaders = <<>>
    /\ bitWriters = <<>>
    /\ streamIndex = 0
    /\ ilvOut = NilBytes
    /\ ilvErr = NoErr
    /\ ilvPc = "none"
    /\ ilvFirst = NoFiles

Init ==
    /\ LfsrIdle
    /\ HammingIdle
    /\ InterleaverIdle
    /\ \E in \in Inputs :
          /\ data = in.data
          /\ commands = in.commands
          /\ startBit = in.startBit
          /\ endArg = in.endBit
          /\ endBit = in.endBit
    /\ inputBits = <<>>
    /\ outputBits = <<>>
    /\ inputPos = 0
    /\ cmdIdx = 0
    /\ logPrinted = FALSE
    /\ firstData = NilBytes
    /\ verbose = FALSE
    /\ verboseOnce = FALSE
    /\ logged = FALSE
    /\ logLines = 0
    /\ passIdx = 0
    /\ passStart = 0
    /\ skipped = 0
    /\ inserted = 0
    /\ quiet = NoCall
    /\ pc = "start"
    /\ err = NoErr
    /\ result = NilBytes

Spec == Init /\ [][Next]_vars

\* the calls followed to their end: the boundary cases and every single-token
\* text on a one-byte input
LiveInputs ==
    Scenarios \cup {In(<<176>>, c, s, 0) : c \in TextsUpTo(1), s \in {0, 3}}

LiveInit == Init /\ In(data, commands, startBit, endArg) \in LiveInputs

\* the call runs on: a step is taken whenever one is possible
FairSpec == LiveInit /\ [][Next]_vars /\ WF_vars(Next)

----------------------------------------------------------------------------
(* lfsr: the runs *)

\* no call of applyEdits
EditorIdle ==
    /\ data = <<>>
    /\ commands = <<>>
    /\ startBit = 0
    /\ endArg = 0
    /\ endBit = 0
    /\ inputBits = <<>>
    /\ outputBits = <<>>
    /\ inputPos = 0
    /\ cmdIdx = 0
    /\ logPrinted = FALSE
    /\ firstData = NilBytes
    /\ verbose = FALSE
    /\ verboseOnce = FALSE
    /\ logged = FALSE
    /\ logLines = 0
    /\ passIdx = 0
    /\ passStart = 0
    /\ skipped = 0
    /\ inserted = 0
    /\ quiet = NoCall
    /\ pc = "none"
    /\ err = NoErr
    /\ result = NilBytes

\* a first run: cipher with a -p and a -s text, or scramble with a -p text
\* (-s is not read), on an input of up to MaxBytes bytes
LfsrInit ==
    /\ EditorIdle
    /\ HammingIdle
    /\ InterleaverIdle
    /\ \/ lfsrMode = "cipher" /\ seedStr \in SeedTexts
       \/ lfsrMode = "scramble" /\ seedStr = <<>>
    /\ polyStr \in PolyTexts
    /\ lfsrInput \in BytesUpTo(MaxBytes)
    /\ poly = <<>>
    /\ degree = 0
    /\ state = <<>>
    /\ bitReader = NewBitReader(<<>>)
    /\ bitWriter = NewBitWriter
    /\ lfsrPc = "start"
    /\ lfsrErr = NoErr
    /\ stateTrace = <<>>
    /\ firstRun = NoRun

LfsrSpec == LfsrInit /\ [][LfsrNext]_vars

----------------------------------------------------------------------------
(* hamming: the runs *)

\* the input files: up to MaxBytes bytes of 00, 41, B0, FF
HamFiles == UNION {[1..n -> {0, 65, 176, 255}] : n \in 0..MaxBytes}

\* a run of main with -encode or -decode on a file, m from 2 to MaxM; or one
\* block of 2^m-1-m data bits, m from 1 to MaxBlockM, decoded with -v
HammingInit ==
    /\ EditorIdle
    /\ LfsrIdle
    /\ InterleaverIdle
    /\ hamExtended \in BOOLEAN
    /\ \/ /\ hamMode \in {"encode", "decode"}
          /\ hamVerbose \in BOOLEAN
          /\ hamM \in 2..MaxM
          /\ hamData \in HamFiles
          /\ hamBits = <<>>
       \/ /\ hamMode = "block"
          /\ hamVerbose = TRUE
          /\ hamM \in 1..MaxBlockM
          /\ hamData = <<>>
          /\ hamBits \in [1..(Pow2(hamM) - 1 - hamM) -> {0, 1}]
    /\ hamOut = <<>>
    /\ hamStderr = <<>>
    /\ hamPc = "start"
    /\ hamFirst = NilBytes
    /\ hamBlock = <<>>
    /\ hamFlips = {}
    /\ hamReader = newBitReader(<<>>)
    /\ hamWriter = newBitWriter
    /\ hamSize = 0
    /\ hamBlockNum = 0

HammingSpec == HammingInit /\ [][HammingNext]_vars

----------------------------------------------------------------------------
(* interleaver: the runs *)

\* the decimal text of a number below 10
DigitText(n) == <<The({c \in Digits : Ord(c) - Ord("0") = n})>>

RECURSIVE PatternText(_)
\* the values of a pattern written with commas
PatternText(p) ==
    IF Len(p) = 1 THEN DigitText(p[1])
    ELSE DigitText(Head(p)) \o <<",">> \o PatternText(Tail(p))

\* the -p texts: every permutation of 0..N-1 up to MaxPattern values, then a
\* text with blanks and texts parsePattern refuses
PatternTexts ==
    {PatternText(p) : p \in {q \in UNION {[1..n -> 0..(n - 1)] : n \in 1..MaxPattern} :
                               isPermutation(q)}}
    \cup {<<"1", ",", " ", "0">>}
    \cup {<<"0", ",", "0">>, <<"1">>, <<"0", ",", "2">>, <<"-", "1">>, <<"z">>}

\* the -s values
ElementSizes == {0, 1, 3, 4, 8, 16}

\* the files of a mux run: as many bytes of 41, of 42, or 41 and 42 in turn
MuxWords(len) ==
    {[j \in 1..len |-> 65], [j \in 1..len |-> 66],
     [j \in 1..len |-> IF j % 2 = 1 THEN 65 ELSE 66]}

\* a run with -p on up to MaxBytes bytes; a run on up to MaxFiles files of
\* one length up to MaxBytes, on "AA" and "B", or on "AAA", "BBB" and "CCC";
\* a run with --split
InterleaverInit ==
    /\ EditorIdle
    /\ LfsrIdle
    /\ HammingIdle
    /\ elementSize \in ElementSizes
    /\ \/ /\ ilvMode = "permute"
          /\ patternStr \in PatternTexts
          /\ ilvInput \in BytesUpTo(MaxBytes)
          /\ muxFiles = <<>>
          /\ splitN \in {0, 2}
          /\ splitN = 2 => (patternStr = <<"0">> /\ ilvInput = <<>>)
       \/ /\ ilvMode = "mux"
          /\ patternStr = <<>>
          /\ ilvInput = <<>>
          /\ splitN \in {0, 2}
          /\ \/ \E k \in 1..MaxFiles, len \in 0..MaxBytes :
                   muxFiles \in [1..k -> MuxWords(len)]
             \/ muxFiles = <<(<<65, 65>>), (<<66>>)>>
             \/ muxFiles = <<(<<65, 65, 65>>), (<<66, 66, 66>>), (<<67, 67, 67>>)>>
          /\ splitN = 2 => muxFiles = <<(<<65, 65>>), (<<66>>)>>
       \/ /\ ilvMode = "demux"
          /\ patternStr = <<>>
          /\ ilvInput \in BytesUpTo(MaxBytes)
          /\ muxFiles = <<>>
          /\ splitN \in {0, 2, 3}
    /\ inverse = FALSE
    /\ bitReaders = <<>>
    /\ bitWriters = <<>>
    /\ streamIndex = 0
    /\ ilvOut = NilBytes
    /\ ilvErr = NoErr
    /\ ilvPc = "start"
    /\ ilvFirst = NoFiles

InterleaverSpec == InterleaverInit /\ [][InterleaverNext]_vars

----------------------------------------------------------------------------
(* The calls the claims name *)

IsCall(d, c, s, e) == data = d /\ commands = c /\ startBit = s /\ endArg = e

Returned == pc = "done"

\* the input has been unpacked and validated, no pass has been made yet
Unpacked == pc = "outer" /\ ~logPrinted

\* the range validation let the call through
RangeValid == pc \in {"outer", "inner", "panic", "toolarge"} \/ (Returned /\ err \notin {ErrStartBounds, ErrStartAfterEnd})

----------------------------------------------------------------------------
(* C1 *)

\* C1 (as claimed): every call of applyEdits ends: it returns, with bytes or
\* with an error, or the run-time system stops it.  Fails: a pass that neither
\* moves the cursor nor writes is repeated for ever.
C1_Terminates == <>(pc \in {"done", "panic", "toolarge"})

----------------------------------------------------------------------------
(* C2 *)

\* C2 (as claimed): once the range is validated the cursor stays in the
\* window, startBit <= inputPos <= endBit.  Fails: Skip adds its count
\* without clamping.
C2_CursorInWindow ==
    pc \in {"outer", "inner"} => (startBit <= inputPos /\ inputPos <= endBit)

----------------------------------------------------------------------------
(* C3 *)

\* C3 (as claimed): no command cuts a slice of the input that is out of range,
\* and a command that reads input reads from a cursor inside the window.
\* Fails: Atoi accepts a signed count.
C3_ReadsInWindow ==
    /\ pc # "panic"
    /\ AtCommand({"t", "n", "v", "b", "x", "a", "o", "["}) => startBit <= inputPos

----------------------------------------------------------------------------
(* C4 *)

\* C4: for an input of L bits, start < 0 or start > L is an error; otherwise
\* end becomes L when end <= 0 or end > L; then start > end is an error;
\* otherwise the run starts with the cursor at start and the window's end at
\* that end.  start = 4 with end = 2 is an error whatever the input.
C4_RangeValidation ==
    LET L == 8 * Len(data)
        E == IF endArg <= 0 \/ endArg > L THEN L ELSE endArg
    IN pc # "start" =>
         /\ IF startBit < 0 \/ startBit > L
            THEN Returned /\ err = ErrStartBounds
            ELSE IF startBit > E
            THEN Returned /\ err = ErrStartAfterEnd
            ELSE /\ endBit = E
                 /\ err \notin {ErrStartBounds, ErrStartAfterEnd}
                 /\ (pc = "outer" /\ ~logPrinted) =>
                        (inputPos = startBit /\ outputBits = <<>>)
         /\ (startBit = 4 /\ endArg = 2) =>
                (Returned /\ err \in {ErrStartBounds, ErrStartAfterEnd})

\* start = 4, end = 2 on a non-empty input has been refused
C4_Witness ==
    Returned /\ startBit = 4 /\ endArg = 2 /\ Len(data) > 0 /\ err = ErrStartAfterEnd

----------------------------------------------------------------------------
(* C5 *)

\* C5: a call returns nil bytes exactly when it returns an error, whatever
\* has been written to the output buffer before the error.
C5_ErrorDiscardsOutput == Returned => ((err # NoErr) <=> (result = NilBytes))

\* an Insert has failed at a bad character after it had written bits
C5_Witness == Returned /\ err = ErrInsert /\ Len(outputBits) > 4 /\ result = NilBytes

----------------------------------------------------------------------------
(* C6 *)

\* C6 (as claimed): a text holding the character z, which is no command and
\* belongs to no argument, is refused on every input and every valid range.
\* Fails: a command is decoded only when the cursor is short of the end.
C6_FaultyTextRefused ==
    (Returned /\ RangeValid /\ \E k \in 1..Len(commands) : commands[k] = "z")
        => err # NoErr

----------------------------------------------------------------------------
(* C7 *)

\* C7 (as claimed): every element of the output buffer is 0 or 1.  Fails: a
\* chain takes the pattern of a logical op without looking at its characters.
C7_OutputBitsBinary == \A k \in 1..Len(outputBits) : outputBits[k] \in {0, 1}

----------------------------------------------------------------------------
(* C8 *)

ABCx3 == <<65, 66, 67, 65, 66, 67, 65, 66, 67>>

CallC8 == IsCall(ABCx3, <<"s", "1", "6", "t", "8">>, 0, 0)

\* C8 (as claimed): "s16t8" on ABCABCABC returns 0x42 0x42 0x42.
C8_AsClaimed == (CallC8 /\ Returned) => result = <<66, 66, 66>>

\* C8 (amended): "s16t8" on ABCABCABC returns 0x43 0x43 0x43, the third byte
\* of every group of three, and no error.
C8_ExtractThirdByte == (CallC8 /\ Returned) => (err = NoErr /\ result = <<67, 67, 67>>)

C8_Witness == CallC8 /\ Returned /\ Len(outputBits) = 24

----------------------------------------------------------------------------
(* C9 *)

CallC9 == IsCall(<<176>>, <<"[", "n", "v", "]", "8">>, 0, 0)

\* C9 (as claimed): "[nv]8" on 0xB0 returns 0x4F.
C9_AsClaimed == (CallC9 /\ Returned) => result = <<79>>

\* C9 (amended): "[nv]8" on 0xB0 returns 0xF2, and on every input the chains
\* nv and vn give the same chunk.
C9_InvertReverseCommute ==
    /\ (CallC9 /\ Returned) => (err = NoErr /\ result = <<242>>)
    /\ Unpacked =>
          applyBlockOps(inputBits, <<"n", "v">>) = applyBlockOps(inputBits, <<"v", "n">>)

C9_Witness == CallC9 /\ Returned /\ outputBits = <<1, 1, 1, 1, 0, 0, 1, 0>>

----------------------------------------------------------------------------
(* C10 *)

CallC10(chain) == IsCall(<<176>>, <<"[">> \o chain \o <<"]", "8">>, 0, 0)

\* C10: "[vn]8" on 0xB0 returns 0xF2; a chain is applied left to right, each
\* command to the chunk the one before it produced: on 0xB0, v then x:10
\* gives 0xA7 and x:10 then v gives 0x58.
C10_ChainLeftToRight ==
    Returned =>
      /\ CallC10(<<"v", "n">>) => (err = NoErr /\ result = <<242>>)
      /\ CallC10(<<"v", "x", ":", "1", "0">>) => (err = NoErr /\ result = <<167>>)
      /\ CallC10(<<"x", ":", "1", "0", "v">>) => (err = NoErr /\ result = <<88>>)

C10_Witness == CallC10(<<"v", "x", ":", "1", "0">>) /\ Returned /\ result = <<167>>

----------------------------------------------------------------------------
(* C11 *)

\* the text "b<n>"
SwapText(n) ==
    CASE n = 8  -> <<"b", "8">>
      [] n = 16 -> <<"b", "1", "6">>
      [] n = 24 -> <<"b", "2", "4">>
      [] n = 32 -> <<"b", "3", "2">>

\* C11: on a range whose length is a multiple of n, "b<n>" (n = 8, 16, 24, 32)
\* returns no error and writes every n-bit word of the range with its bytes
\* last to first, the bits of a byte in their order: output bit i is the bit
\* i % 8 of byte n/8 - 1 - (i % n) / 8 of word i / n.  "b32" on 01 02 03 04
\* returns 04 03 02 01.
C11_ByteSwapWords ==
    /\ \A n \in {8, 16, 24, 32} :
          (Returned /\ RangeValid /\ commands = SwapText(n)
             /\ (endBit - startBit) % n = 0)
          => /\ err = NoErr
             /\ Len(outputBits) = endBit - startBit
             /\ \A i \in 0..(endBit - startBit - 1) :
                   outputBits[i + 1] =
                     inputBits[startBit + (i \div n) * n
                               + ((n \div 8) - 1 - ((i % n) \div 8)) * 8 + (i % 8) + 1]
    /\ (IsCall(<<1, 2, 3, 4>>, SwapText(32), 0, 0) /\ Returned)
          => (err = NoErr /\ result = <<4, 3, 2, 1>>)

C11_Witness ==
    IsCall(<<1, 2, 3, 4>>, SwapText(32), 0, 0) /\ Returned /\ result = <<4, 3, 2, 1>>

----------------------------------------------------------------------------
(* C12 *)

Xor8 == <<"x", "8", ":", "1", "0", "1", "1", "0", "1", "0", "1">>

\* C12: a run of "xN:P" over the whole input returns no error, and the same
\* run on the bytes it returned gives back the bytes it started from; with
\* "x8:10110101" the byte 0xB0 becomes 0x05 (and 0x05 becomes 0xB0 again).
C12_XorTwiceIdentity ==
    (Returned /\ commands \in Repeated /\ startBit = 0 /\ endArg = 0)
    => /\ err = NoErr
       /\ Len(result) = Len(data)
       /\ firstData # NilBytes => result = firstData
       /\ (firstData = NilBytes /\ commands = Xor8 /\ data = <<176>>) => result = <<5>>

C12_Witness ==
    /\ Returned /\ commands = Xor8
    /\ firstData = <<176, 65>> /\ data = <<5, 244>> /\ result = <<176, 65>>

----------------------------------------------------------------------------
(* C13 *)

\* C13: once applyEdits has unpacked the input, its bits are 8 for each byte,
\* the most significant first (bit 8k+j is bit 7-j of byte k), and packing
\* them gives the input bytes back.
C13_BitsRoundTrip ==
    Unpacked =>
      /\ Len(inputBits) = 8 * Len(data)
      /\ \A k \in 0..(Len(data) - 1) : \A j \in 0..7 :
            inputBits[8 * k + j + 1] = (data[k + 1] \div (2 ^ (7 - j))) % 2
      /\ bitsToBytes(inputBits) = data

C13_Witness ==
    Unpacked /\ data = <<197>> /\ inputBits = <<1, 1, 0, 0, 0, 1, 0, 1>>
             /\ bitsToBytes(inputBits) = <<197>>

----------------------------------------------------------------------------
(* C14 *)

\* C14: with the empty command text no pass is made, whatever the input and
\* the range: the inner loop is never entered, nothing is written, the cursor
\* stays at startBit, and when the range is valid the call returns an empty
\* output and no error.
C14_EmptyProgram ==
    commands = <<>> =>
      /\ pc \notin {"inner", "panic", "toolarge"}
      /\ ~logPrinted
      /\ outputBits = <<>>
      /\ pc = "outer" => inputPos = startBit
      /\ (Returned /\ RangeValid) =>
            (err = NoErr /\ result = <<>> /\ inputPos = startBit)

C14_Witness ==
    /\ commands = <<>> /\ Returned /\ err = NoErr /\ result = <<>>
    /\ Len(data) = 2 /\ startBit = 3 /\ endBit = 11 /\ inputPos = 3

----------------------------------------------------------------------------
(* C15 *)

\* the calls of C15 that have returned: a valid, non-empty range
C15_Returned(text) ==
    Returned /\ commands = text /\ RangeValid /\ startBit < endBit

C15_Texts ==
    /\ C15_Returned(<<"[", "n", "8">>) => (err = ErrBrackets /\ result = NilBytes)
    /\ C15_Returned(<<"b", "7">>) => (err = ErrNotByteMultiple /\ result = NilBytes)
    /\ C15_Returned(<<"z", "5">>) => (err = ErrUnknown /\ result = NilBytes)

C15_Reached ==
    (/\ pc = "inner" /\ cmdIdx < Len(commands) /\ inputPos < endBit
     /\ At(commands, cmdIdx) \notin {"t", "s", "n", "v", "b", "x", "a", "o", "i", "["})
    => (pc' = "done" /\ err' = ErrUnknown /\ result' = NilBytes)

\* C15: on a non-empty range "[n8" returns the mismatched-brackets error, "b7"
\* the error of a count that is no multiple of 8 and "z5" the unknown-command
\* error, each with no output; and whenever the inner loop is at a character
\* other than t s n v b x a o i [, its step returns the unknown-command error.
C15_MalformedTexts == [](C15_Texts) /\ [][C15_Reached]_vars

C15_Witness ==
    /\ C15_Returned(<<"b", "7">>) /\ err = ErrNotByteMultiple
    /\ Len(data) = 2 /\ startBit = 3 /\ endBit = 6

----------------------------------------------------------------------------
(* C16 *)

\* the inner loop is at a 't' whose argument is a count of at least 0
C16_AtTake ==
    /\ pc = "inner" /\ cmdIdx < Len(commands) /\ inputPos < endBit
    /\ At(commands, cmdIdx) = "t"
    /\ Atoi(ArgStr(commands, cmdIdx)).ok
    /\ Atoi(ArgStr(commands, cmdIdx)).val >= 0

C16_Step ==
    (C16_AtTake /\ pc' # "toolarge")
    => LET n       == Atoi(ArgStr(commands, cmdIdx)).val
           readEnd == IF inputPos + n < endBit THEN inputPos + n ELSE endBit
       IN /\ pc' = "inner"
          /\ err' = NoErr
          /\ inputPos' = readEnd
          /\ outputBits' =
                outputBits \o [k \in 1..(readEnd - inputPos) |-> inputBits[inputPos + k]]

\* C16 (as claimed): a 't' with a count n >= 0, at a cursor before the end of
\* the range, appends the bits inputPos .. min(inputPos+n, endBit) - 1 of the
\* input, moves the cursor to min(inputPos+n, endBit) and is no error (as
\* long as the output buffer can grow).  Fails: after a skip by a negative
\* count the cursor is below 0 and the slice expression of 't' panics.
C16_TakeClamped == [][C16_Step]_vars

----------------------------------------------------------------------------
(* C17 *)

\* C17 (as claimed): no command moves the cursor back: inputPos after a step
\* of the inner loop is at least inputPos before it.  Fails: the count of a
\* skip may carry a sign, and 's' adds it to the cursor as it is.
C17_CursorMonotone == [][pc = "inner" => inputPos' >= inputPos]_vars

----------------------------------------------------------------------------
(* C18 *)

\* the inner loop is at a t, s, n, v or b whose argument is not a non-empty
\* run of decimal digits
C18_AtBadCount ==
    /\ pc = "inner" /\ cmdIdx < Len(commands) /\ inputPos < endBit
    /\ At(commands, cmdIdx) \in {"t", "s", "n", "v", "b"}
    /\ LET argStr == ArgStr(commands, cmdIdx)
       IN argStr = <<>> \/ \E k \in 1..Len(argStr) : argStr[k] \notin Digits

\* C18 (as claimed): t, s, n, v and b take a non-empty run of decimal digits
\* only; with any other argument text, one with a sign too, the step returns
\* the invalid-argument error.  Fails: strconv.Atoi takes "-1" and "+3".
C18_UnsignedCounts ==
    [][C18_AtBadCount => (pc' = "done" /\ err' = ErrNumeric /\ result' = NilBytes)]_vars

----------------------------------------------------------------------------
(* C19 *)

\* C19 (as claimed): a block whose chain holds a t, s or i, wherever in the
\* chain, returns the not-allowed-in-block error and no bytes.  Fails: the
\* pattern of a logical op runs up to the next n, v, x, a or o, so a t, s or
\* i right after a pattern is taken as a pattern character.
C19_NotAllowedInChain ==
    \A c \in TakeSkipInsertChains :
        (Returned /\ commands = BlockOf(c) /\ RangeValid /\ startBit < endBit)
        => (err = ErrChainNotAllowed /\ result = NilBytes)

----------------------------------------------------------------------------
(* C20 *)

\* the argument text arg of a logical op has a ':' and, after the first ':',
\* a non-empty pattern of 0 and 1
C20_PatternGiven(arg) ==
    \E k \in 1..Len(arg) :
        /\ arg[k] = ":"
        /\ \A j \in 1..(k - 1) : arg[j] # ":"
        /\ k < Len(arg)
        /\ \A j \in (k + 1)..Len(arg) : arg[j] \in {"0", "1"}

\* the text before the first ':' of arg is a non-empty run of digits
C20_CountGiven(arg) ==
    \E k \in 2..Len(arg) :
        arg[k] = ":" /\ \A j \in 1..(k - 1) : arg[j] \in Digits

C20_Call(text) == Returned /\ commands = text /\ RangeValid /\ startBit < endBit

\* C20 (as claimed): a logical op without ':', without pattern or with a
\* pattern character other than 0 and 1 makes the call return an error, as an
\* outer command (there also when the count is no number) and as a command of
\* a chain.  Fails: a chain never looks at the characters of its pattern.
C20_LogicalValidated ==
    /\ \A c \in LogicalTexts :
          (C20_Call(c) /\ ~(C20_PatternGiven(Tail(c)) /\ C20_CountGiven(Tail(c))))
          => (err # NoErr /\ result = NilBytes)
    /\ \A c \in LogicalChains :
          (C20_Call(BlockOf(c)) /\ ~C20_PatternGiven(Tail(c)))
          => (err # NoErr /\ result = NilBytes)

----------------------------------------------------------------------------
(* C21 *)

CallC21 == IsCall(<<176, 65>>, <<"[", "x", ":", "1", "b", "]", "1", "6">>, 0, 0)

\* C21 (as claimed): in a chain the pattern of a logical op ends at the next
\* command character, b too: "[x:1b]16" on B0 41 XORs the 16 bits with the
\* pattern 1 and swaps the two bytes, giving BE 4F, and on every input the
\* chain x:1b gives what the chain b gives on the result of the chain x:1.
\* Fails: the pattern runs up to the next n, v, x, a or o, so the b is read
\* as a pattern character and nothing is swapped.
C21_ChainPatternEndsAtB ==
    /\ (CallC21 /\ Returned) => (err = NoErr /\ result = <<190, 79>>)
    /\ Unpacked =>
          applyBlockOps(inputBits, <<"x", ":", "1", "b">>) =
            applyBlockOps(applyBlockOps(inputBits, <<"x", ":", "1">>).chunk, <<"b">>)

----------------------------------------------------------------------------
(* C22 *)

\* C22: a call with verbose or verboseOnce set ends as the same call with
\* both flags false ended: the same return or crash, the same error, the same
\* bytes, the same output buffer and the same cursor.
C22_LoggingChangesNothing == (quiet # NoCall /\ Halted) => Outcome = quiet

C22_Witness ==
    /\ quiet # NoCall /\ Returned /\ verbose /\ verboseOnce /\ logged
    /\ commands = <<"s", "2", "t", "3">> /\ data = <<176, 65>>
    /\ startBit = 0 /\ endArg = 0 /\ err = NoErr /\ Len(outputBits) = 9

----------------------------------------------------------------------------
(* C23 *)

\* the inner loop is at an 'i'
C23_AtInsert ==
    /\ pc = "inner" /\ cmdIdx < Len(commands) /\ inputPos < endBit
    /\ At(commands, cmdIdx) = "i"

C23_Step ==
    (C23_AtInsert /\ pc' # "toolarge")
    => LET lit == ArgStr(commands, cmdIdx)
       IN IF \A k \in 1..Len(lit) : lit[k] \in {"0", "1"}
          THEN /\ pc' = "inner" /\ err' = NoErr
               /\ inputPos' = inputPos
               /\ outputBits' =
                     outputBits \o [k \in 1..Len(lit) |-> IF lit[k] = "1" THEN 1 ELSE 0]
          ELSE pc' = "done" /\ err' = ErrInsert /\ result' = NilBytes

\* C23: an 'i' whose literal holds only 0 and 1 appends the bits of the
\* literal in order and leaves the cursor where it is (as long as the output
\* buffer can grow); with the empty literal it appends nothing and is no
\* error; with any other character in the literal the call returns the
\* error of the 'i' command and no bytes.
C23_InsertLiteral == [][C23_Step]_vars

C23_Witness ==
    /\ commands = <<"i", "t", "8">> /\ data = <<176>> /\ Returned
    /\ err = NoErr /\ result = <<176>> /\ logPrinted

----------------------------------------------------------------------------
(* C24 *)

\* the first nb bytes of chunk, the last byte first
RECURSIVE C24_BytesReversed(_, _)
C24_BytesReversed(chunk, nb) ==
    IF nb = 0 THEN <<>>
    ELSE SubSeq(chunk, 8 * (nb - 1) + 1, 8 * nb) \o C24_BytesReversed(chunk, nb - 1)

\* the whole bytes of chunk last to first, then the bits short of a byte
C24_Swapped(chunk) ==
    LET nb == Len(chunk) \div 8
    IN C24_BytesReversed(chunk, nb) \o SubSeq(chunk, 8 * nb + 1, Len(chunk))

\* the chunk of count bits at the cursor, clamped to the range
C24_Chunk(count) ==
    SubSeq(inputBits, inputPos + 1,
           IF inputPos + count < endBit THEN inputPos + count ELSE endBit)

\* a command that has a chunk (cursor and count at least 0) appends out and
\* moves the cursor over the chunk
C24_Appends(count) ==
    (count >= 0 /\ inputPos >= 0 /\ pc' # "toolarge")
    => /\ pc' = "inner" /\ err' = NoErr
       /\ outputBits' = outputBits \o C24_Swapped(C24_Chunk(count))
       /\ inputPos' = inputPos + Len(C24_Chunk(count))

C24_Step ==
    (pc = "inner" /\ cmdIdx < Len(commands) /\ inputPos < endBit)
    => /\ (At(commands, cmdIdx) = "b" /\ Atoi(ArgStr(commands, cmdIdx)).ok
            /\ Atoi(ArgStr(commands, cmdIdx)).val % 8 = 0)
          => C24_Appends(Atoi(ArgStr(commands, cmdIdx)).val)
       /\ (/\ cmdIdx + 3 < Len(commands)
           /\ SubSeq(commands, cmdIdx + 1, cmdIdx + 3) = <<"[", "b", "]">>
           /\ commands[cmdIdx + 4] \in Digits)
          => C24_Appends(Atoi(Slice(commands, cmdIdx + 3,
                                    DigitRunEnd(commands, cmdIdx + 3))).val)

\* the outer 'b' and the 'b' of a chain agree on every chunk that starts at
\* the start of the range
C24_Same ==
    Unpacked =>
      \A q \in startBit..endBit :
         LET chunk == SubSeq(inputBits, startBit + 1, q)
         IN /\ ByteSwapBits(chunk) = C24_Swapped(chunk)
            /\ applyBlockOps(chunk, <<"b">>) = [err |-> NoErr, chunk |-> C24_Swapped(chunk)]

\* C24: a byte swap of a clamped chunk of L bits, made by "b<n>" or by the
\* chain of "[b]<n>", appends the L/8 whole bytes of the chunk last to first,
\* each with its bits in order, then the L%8 bits left over, and moves the
\* cursor by L; the two implementations give the same bits on every chunk.
C24_ByteSwapChunk == [](C24_Same) /\ [][C24_Step]_vars

C24_Witness ==
    /\ IsCall(<<1, 2, 3, 4>>, <<"[", "b", "]", "3", "2">>, 3, 0) /\ Returned
    /\ Len(outputBits) = 29
    /\ SubSeq(outputBits, 1, 8) = SubSeq(inputBits, 20, 27)
    /\ SubSeq(outputBits, 25, 29) = SubSeq(inputBits, 28, 32)

----------------------------------------------------------------------------
(* C25 *)

\* the count and the pattern of the outer logical op at cmdIdx
C25_Colon == IndexRune(ArgStr(commands, cmdIdx), ":")
C25_Count == Atoi(Slice(ArgStr(commands, cmdIdx), 0, C25_Colon))
C25_Pattern ==
    Slice(ArgStr(commands, cmdIdx), C25_Colon + 1, Len(ArgStr(commands, cmdIdx)))

\* the inner loop is at an x, a or o with a count of at least 0 and a
\* non-empty pattern of 0 and 1
C25_AtLogical ==
    /\ pc = "inner" /\ cmdIdx < Len(commands) /\ inputPos < endBit
    /\ At(commands, cmdIdx) \in {"x", "a", "o"}
    /\ C25_Colon # -1
    /\ C25_Count.ok /\ C25_Count.val >= 0
    /\ C25_Pattern # <<>>
    /\ \A k \in 1..Len(C25_Pattern) : C25_Pattern[k] \in {"0", "1"}

\* op on two bits
C25_Op(command, bit, p) ==
    CASE command = "x" -> (bit + p) % 2
      [] command = "a" -> bit * p
      [] command = "o" -> IF bit + p > 0 THEN 1 ELSE 0

C25_Step ==
    (C25_AtLogical /\ pc' # "toolarge")
    => LET m == IF C25_Count.val < endBit - inputPos THEN C25_Count.val
                ELSE endBit - inputPos
           P == C25_Pattern
       IN /\ pc' = "inner" /\ err' = NoErr
          /\ inputPos' = inputPos + m
          /\ outputBits' =
                outputBits \o
                [i \in 1..m |->
                    C25_Op(At(commands, cmdIdx), inputBits[inputPos + i],
                           IF P[((i - 1) % Len(P)) + 1] = "1" THEN 1 ELSE 0)]

\* C25 (as claimed): an outer x, a or o with count N and pattern P appends
\* the m = min(N, endBit - inputPos) bits op(input[inputPos+i], P[i mod len(P)]),
\* the pattern starting at its first character at every execution, and moves
\* the cursor by m (as long as the output buffer can grow).  Fails: after a
\* skip by a negative count the cursor is below 0 and the slice expression
\* of the command panics.
C25_LogicalChunk == [][C25_Step]_vars

----------------------------------------------------------------------------
(* C26 *)

\* the text position of the first ']' after cmdIdx, or -1
C26_Close ==
    LET at == {k \in (cmdIdx + 1)..(Len(commands) - 1) : At(commands, k) = "]"}
    IN IF at = {} THEN -1 ELSE Least(at)

C26_Chain == Slice(commands, cmdIdx + 1, C26_Close)

C26_Count ==
    Atoi(Slice(commands, C26_Close + 1, DigitRunEnd(commands, C26_Close + 1))).val

\* the inner loop is at a '[' with its ']', a count and a chain that no
\* chunk makes fail
C26_AtBlock ==
    /\ pc = "inner" /\ cmdIdx < Len(commands) /\ inputPos < endBit
    /\ At(commands, cmdIdx) = "["
    /\ C26_Close # -1
    /\ DigitRunEnd(commands, C26_Close + 1) > C26_Close + 1
    /\ applyBlockOps(<<>>, C26_Chain).err = NoErr

C26_Step ==
    (C26_AtBlock /\ pc' # "toolarge")
    => LET readEnd == IF inputPos + C26_Count < endBit THEN inputPos + C26_Count
                      ELSE endBit
       IN /\ pc' = "inner" /\ err' = NoErr
          /\ inputPos' = readEnd
          /\ Len(outputBits') = Len(outputBits) + (readEnd - inputPos)
          /\ outputBits' =
                outputBits \o
                applyBlockOps(SubSeq(inputBits, inputPos + 1, readEnd), C26_Chain).chunk

\* C26 (as claimed): a block "[chain]n" appends what the chain makes of the
\* chunk input[inputPos .. min(inputPos+n, endBit)), as many bits as the chunk
\* has, and moves the cursor to the end of the chunk (as long as the output
\* buffer can grow).  Fails: after a skip by a negative count the cursor is
\* below 0 and the slice expression of the block panics.
C26_BlockChunk == [][C26_Step]_vars

----------------------------------------------------------------------------
(* C27 *)

\* the inner loop is at the command c with a count of at least 0
C27_At(c) ==
    /\ pc = "inner" /\ cmdIdx < Len(commands) /\ inputPos < endBit
    /\ At(commands, cmdIdx) = c
    /\ Atoi(ArgStr(commands, cmdIdx)).ok
    /\ Atoi(ArgStr(commands, cmdIdx)).val >= 0

C27_ReadEnd ==
    LET n == Atoi(ArgStr(commands, cmdIdx)).val
    IN IF inputPos + n < endBit THEN inputPos + n ELSE endBit

C27_Step ==
    /\ (C27_At("v") /\ pc' # "toolarge")
       => /\ pc' = "inner" /\ err' = NoErr
          /\ inputPos' = C27_ReadEnd
          /\ outputBits' =
                outputBits \o
                [j \in 1..(C27_ReadEnd - inputPos) |-> inputBits[C27_ReadEnd - j + 1]]
    /\ (C27_At("n") /\ pc' # "toolarge")
       => /\ pc' = "inner" /\ err' = NoErr
          /\ inputPos' = C27_ReadEnd
          /\ outputBits' =
                outputBits \o
                [j \in 1..(C27_ReadEnd - inputPos) |-> 1 - inputBits[inputPos + j]]

\* C27 (as claimed): "v<n>" appends the clamped chunk
\* input[inputPos .. min(inputPos+n, endBit)) last bit first, "n<n>" appends
\* the complement of every bit of the same chunk in order, and both move the
\* cursor to the end of the chunk (as long as the output buffer can grow).
\* Fails: after a skip by a negative count the cursor is below 0 and the
\* slice expression of the command panics.
C27_ReverseInvertChunk == [][C27_Step]_vars

----------------------------------------------------------------------------
(* C28 *)

\* the inner loop is at a '['
C28_AtBracket ==
    /\ pc = "inner" /\ cmdIdx < Len(commands) /\ inputPos < endBit
    /\ At(commands, cmdIdx) = "["

\* the text position after the first ']' that follows cmdIdx
C28_AfterClose == C26_Close + 1

C28_Step ==
    C28_AtBracket
    => IF C26_Close = -1
       THEN pc' = "done" /\ err' = ErrBrackets /\ result' = NilBytes
       ELSE IF C28_AfterClose >= Len(commands)
               \/ At(commands, C28_AfterClose) \notin Digits
       THEN pc' = "done" /\ err' = ErrBlockNoNumber /\ result' = NilBytes
       ELSE /\ pc' = "inner" =>
                 /\ cmdIdx' = DigitRunEnd(commands, C28_AfterClose)
                 /\ outputBits' =
                       outputBits \o
                       applyBlockOps(SubSeq(inputBits, inputPos + 1, inputPos'),
                                     C26_Chain).chunk
            /\ pc' = "done" => err' = applyBlockOps(<<>>, C26_Chain).err

\* C28: at a '[' the chain is the text up to the first ']' after it; with no
\* ']' the call returns the mismatched-brackets error; with no decimal digit
\* right after the ']' it returns the error of a block without a number,
\* whatever the chain is; otherwise the chain is applied and the scan goes on
\* right after the digits, or the call returns the error of the chain.
C28_BlockSyntax == [][C28_Step]_vars

C28_Witness ==
    /\ Returned /\ commands = <<"[", "t", "]">> /\ data = <<176>>
    /\ err = ErrBlockNoNumber /\ result = NilBytes /\ outputBits = <<>>

----------------------------------------------------------------------------
(* lfsr: cipher twice, scramble then descramble *)

\* the run is the second of a pair in the given mode
SecondOf(m) == lfsrMode = m /\ firstRun # NoRun

\* the register was, before each bit of this run so far, what it was before
\* the same bit of the run before
SameRegisters == stateTrace = SubSeq(firstRun.states, 1, Len(stateTrace))

\* C29: for every tap list, every seed as long as the degree and every input
\* X, the cipher run on the output of a cipher run with the same -p and -s
\* returns X without error; and the register before each bit of the second
\* run is the register before the same bit of the first run, whatever the
\* data bits of the two runs are.
C29_CipherInvolution ==
    SecondOf("cipher") =>
        /\ SameRegisters
        /\ lfsrPc = "done" => (lfsrErr = NoErr /\ bitWriter.writer = firstRun.input)

\* -p "4,1" -s "1000" on B0 41: the first run wrote other bytes, the second
\* run returned B0 41
C29_Witness ==
    /\ SecondOf("cipher")
    /\ lfsrPc = "done"
    /\ polyStr = <<"4", ",", "1">>
    /\ seedStr = <<"1", "0", "0", "0">>
    /\ firstRun.input = <<176, 65>>
    /\ lfsrInput # <<176, 65>>
    /\ Len(stateTrace) = 16
    /\ bitWriter.writer = <<176, 65>>

\* C30: for every polynomial and every input X, the descramble run on the
\* output of the scramble run with the same -p returns X without error; and
\* the descrambler's register before each bit is the scrambler's register
\* before the same bit, both having started at all zeros.
C30_DescrambleInvertsScramble ==
    SecondOf("descramble") =>
        /\ SameRegisters
        /\ \A tr \in {stateTrace, firstRun.states} :
              tr # <<>> => tr[1] = Zeros(Len(tr[1]))
        /\ lfsrPc = "done" => (lfsrErr = NoErr /\ bitWriter.writer = firstRun.input)

\* -p "4,1" on B0 41: the scrambler wrote other bytes, the descrambler
\* returned B0 41
C30_Witness ==
    /\ SecondOf("descramble")
    /\ lfsrPc = "done"
    /\ polyStr = <<"4", ",", "1">>
    /\ firstRun.input = <<176, 65>>
    /\ lfsrInput # <<176, 65>>
    /\ Len(stateTrace) = 16
    /\ bitWriter.writer = <<176, 65>>

----------------------------------------------------------------------------
(* hamming: encode then decode, one flipped bit *)

\* the run is -decode on the file that -encode wrote
DecodesEncoded == hamMode = "decode" /\ hamFirst # NilBytes

\* C31: for every byte sequence D and every m >= 2, with and without
\* -extended and -v, -decode on what -encode wrote for D reads a whole
\* header and returns exactly D: neither the header nor the zeros that fill
\* the last data block and the last byte add, drop or change a byte.
C31_DecodeInvertsEncode ==
    DecodesEncoded =>
        /\ hamPc # "fatal"
        /\ hamPc = "done" => hamOut = hamFirst

\* -m 4 on B0 41: 16 data bits fill two blocks of 11, the second one with
\* six zeros, and decode returns B0 41
C31_Witness ==
    /\ DecodesEncoded
    /\ hamPc = "done"
    /\ hamM = 4
    /\ hamFirst = <<176, 65>>
    /\ hamBlockNum = 2
    /\ Len(Bytes(hamWriter)) = 3
    /\ hamOut = <<176, 65>>

\* C32: for every m, every block of 2^m-1-m data bits and every single
\* flipped position of the block as written (the overall parity bit of the
\* extended code included), decodeBlock returns the data bits that were
\* encoded.
C32_SingleErrorCorrected ==
    (hamMode = "block" /\ hamPc = "received" /\ Cardinality(hamFlips) = 1)
        => hamOut = hamBits

\* the extended code with m = 3: the bit after the overall parity bit was
\* flipped, decodeBlock reports position 1 and returns the data
C32_Witness ==
    /\ hamMode = "block"
    /\ hamPc = "received"
    /\ hamM = 3
    /\ hamExtended
    /\ hamFlips = {2}
    /\ hamBits = <<1, 0, 1, 1>>
    /\ hamStderr = <<LogCorrected(0, 1)>>
    /\ hamOut = <<1, 0, 1, 1>>

----------------------------------------------------------------------------
(* interleaver: permute and back, mux and demux *)

\* the bits from the start of the trailing group on are those of the input
TailKept ==
    LET n         == Len(parsePattern(patternStr).pattern)
        inBits    == bytesToBits(ilvInput)
        outBits   == bytesToBits(ilvOut)
        groupBits == n * elementSize
        tail      == (Len(inBits) \div groupBits) * groupBits
    IN /\ Len(outBits) = Len(inBits)
       /\ \A t \in (tail + 1)..Len(inBits) : outBits[t] = inBits[t]

\* C33: for every permutation pattern p, every element size s >= 1 and
\* every byte sequence D, the run with -p p -s s -inverse on the output of
\* the run with -p p -s s on D returns D; and in either direction the bits
\* of a trailing group of fewer than N whole elements are written as read.
C33_InverseRestores ==
    (ilvMode = "permute" /\ ilvPc = "done" /\ ilvErr = NoErr) =>
        /\ TailKept
        /\ ilvFirst # NoFiles => ilvOut = ilvFirst[1]

\* -p "2,0,1" -s 3 on B0 41: one group of nine bits is permuted, seven bits
\* trail; the run with -inverse returns B0 41
C33_Witness ==
    /\ ilvMode = "permute"
    /\ ilvPc = "done"
    /\ inverse
    /\ patternStr = <<"2", ",", "0", ",", "1">>
    /\ elementSize = 3
    /\ ilvFirst = <<(<<176, 65>>)>>
    /\ ilvInput # <<176, 65>>
    /\ ilvOut = <<176, 65>>

\* the files have one length and their bit length is a multiple of size
EqualFiles(files, size) ==
    /\ size > 0
    /\ \A i \in 1..Len(files) :
          Len(files[i]) = Len(files[1]) /\ (8 * Len(files[i])) % size = 0

\* element j of file i (both from 0) is element j*k+i of the bits
RoundRobin(files, size, bits) ==
    LET k == Len(files)
    IN /\ Len(bits) = 8 * k * Len(files[1])
       /\ \A i \in 0..(k - 1), j \in 0..(((8 * Len(files[1])) \div size) - 1) :
             Slice(bits, (j * k + i) * size, (j * k + i + 1) * size)
               = Slice(bytesToBits(At(files, i)), j * size, (j + 1) * size)

\* C34: for k input files of one length whose bit length is a multiple of
\* the element size s, the mux run writes element j of file i at element
\* position j*k+i of its output, and the run with --split k and the same s
\* on that output writes to stream i the content of file i.
C34_MuxThenDemux ==
    /\ (ilvMode = "mux" /\ ilvPc = "done" /\ ilvErr = NoErr
           /\ EqualFiles(muxFiles, elementSize))
          => RoundRobin(muxFiles, elementSize, bytesToBits(ilvOut))
    /\ (ilvMode = "demux" /\ ilvPc = "done" /\ ilvFirst # NoFiles
           /\ EqualFiles(ilvFirst, elementSize))
          => /\ ilvErr = NoErr
             /\ Len(bitWriters) = Len(ilvFirst)
             /\ \A i \in 1..Len(ilvFirst) : bitWriters[i].writer = ilvFirst[i]

\* "AAA", "BBB", "CCC" with -s 8: the mux run wrote "ABCABCABC" and the
\* run with --split 3 wrote "AAA", "BBB", "CCC"
C34_Witness ==
    /\ ilvMode = "demux"
    /\ ilvPc = "done"
    /\ elementSize = 8
    /\ splitN = 3
    /\ ilvInput = <<65, 66, 67, 65, 66, 67, 65, 66, 67>>
    /\ bitWriters[1].writer = <<65, 65, 65>>
    /\ bitWriters[2].writer = <<66, 66, 66>>
    /\ bitWriters[3].writer = <<67, 67, 67>>


----------------------------------------------------------------------------
(* bit-editor: the passes of applyEdits *)

\* the range is used up while the loops of applyEdits are running
Exhausted == pc \in {"inner", "outer"} /\ inputPos >= endBit

\* C35: once inputPos >= endBit holds, no further command of the pass and no
\* further pass is executed: the inner loop is left, then the outer loop is
\* left and the call returns; the output bits, the cursor and the text
\* position stay as the command that used up the range left them, also when
\* the next command is an Insert
C35_NothingAfterExhaustion ==
    [][Exhausted =>
          /\ pc' = (IF pc = "inner" THEN "outer" ELSE "done")
          /\ outputBits' = outputBits
          /\ inputPos' = inputPos
          /\ cmdIdx' = cmdIdx
          /\ err' = NoErr]_vars

\* "t8i1" on the byte B0 returned exactly the 8 bits of the input: the
\* Insert after the Take was not executed
C35_Witness ==
    /\ pc = "done"
    /\ err = NoErr
    /\ data = <<176>>
    /\ commands = <<"t", "8", "i", "1">>
    /\ cmdIdx = 2
    /\ inputPos = 8
    /\ outputBits = bytesToBits(<<176>>)
    /\ result = <<176>>


\* the command switch of the inner loop: the effect of the command at text
\* position idx with the cursor at pos
Effect(bits, cmds, idx, pos, end) ==
    LET command == At(cmds, idx)
    IN CASE command \in {"t", "n", "v", "b"} ->
               ChunkCommand(command, bits, cmds, idx, pos, end)
         [] command = "s" -> SkipCommand(cmds, idx, pos)
         [] command = "i" -> InsertCommand(cmds, idx, pos)
         [] command \in {"x", "a", "o"} ->
               LogicalCommand(command, bits, cmds, idx, pos, end)
         [] command = "[" -> BlockCommand(bits, cmds, idx, pos, end)
         [] OTHER -> Fail(ErrUnknown, <<>>)

\* the text position after the command at idx, from the text alone
NextCmd(cmds, idx) ==
    IF At(cmds, idx) = "["
    THEN LET rest == Slice(cmds, idx + 1, Len(cmds))
         IN DigitRunEnd(cmds, IndexRune(rest, "]") + idx + 2)
    ELSE ArgEnd(cmds, idx)

\* the command at idx decodes without an error of the text
WellFormedAt(cmds, idx) == Effect(<<>>, cmds, idx, 0, 0).kind # "err"

\* the text parsed once, from position idx on: the positions of its commands,
\* closed by -1 when a command is not well-formed
RECURSIVE CommandList(_, _)
CommandList(cmds, idx) ==
    IF idx >= Len(cmds) THEN <<>>
    ELSE IF ~WellFormedAt(cmds, idx) THEN <<-1>>
    ELSE <<idx>> \o CommandList(cmds, NextCmd(cmds, idx))

\* every command of the text is well-formed
WellFormed(cmds) ==
    LET list == CommandList(cmds, 0) IN \A k \in 1..Len(list) : list[k] >= 0

\* the state of the engine that replays a parsed list
Replaying(pos, out, halt) == [pos |-> pos, out |-> out, halt |-> halt]

\* one pass of the replaying engine, from the k-th command of the list on:
\* the list is followed by index, the pass stops early when pos >= end
RECURSIVE ReplayPass(_, _, _, _)
ReplayPass(call, list, k, st) ==
    IF k > Len(list) \/ st.pos >= call.end \/ st.halt # "ok" THEN st
    ELSE The({ ReplayPass(call, list, k + 1, next) :
               next \in { IF Len(st.out) + Len(r.out) > MaxOut
                          THEN Replaying(st.pos, st.out, "toolarge")
                          ELSE IF r.kind # "ok"
                          THEN Replaying(st.pos, st.out \o r.out, r.kind)
                          ELSE Replaying(r.pos, st.out \o r.out, "ok") :
                          r \in {Effect(call.bits, call.cmds, list[k], st.pos,
                                        call.end)} } })

\* the passes of the replaying engine
RECURSIVE ReplayLoop(_, _, _)
ReplayLoop(call, list, st) ==
    IF st.pos >= call.end \/ Len(list) = 0 \/ st.halt # "ok" THEN st
    ELSE The({ ReplayLoop(call, list, next) :
               next \in {ReplayPass(call, list, 1, st)} })

\* the engine run on the arguments of the call
Replayed ==
    ReplayLoop([bits |-> inputBits, cmds |-> commands, end |-> endBit],
               CommandList(commands, 0), Replaying(startBit, <<>>, "ok"))

\* a call on a well-formed text that has ended has the outcome of the
\* replaying engine: the same bytes at the same cursor, or the same stop
SameOutcome ==
    (Halted /\ err = NoErr /\ WellFormed(commands)) =>
        LET end == The({Replayed})
        IN /\ end.halt = (IF pc = "done" THEN "ok" ELSE pc)
           /\ pc = "done" => /\ result = bitsToBytes(end.out)
                             /\ inputPos = end.pos

\* a pass starts at text position 0, and the command at cmdIdx is followed
\* by the one at the position the text alone gives
SameScan ==
    /\ (pc = "outer" /\ pc' = "inner") => cmdIdx' = 0
    /\ (pc = "inner" /\ pc' = "inner") => cmdIdx' = NextCmd(commands, cmdIdx)

\* C36: every pass scans the text from position 0 through the same command
\* positions, which depend on the text alone; so a call on a text in which
\* every command is well-formed has the outcome of the engine that parses
\* the text once and replays the list by index with the same clamping and
\* the same early stop on pos >= end: the same bytes are returned
C36_ParsedOnceReplay == []SameOutcome /\ [][SameScan]_vars

\* "s2t3" on B0 41 has returned after four passes over its two commands:
\* three passes wrote three bits each, the fourth ended at its Skip
C36_Witness ==
    /\ pc = "done"
    /\ err = NoErr
    /\ data = <<176, 65>>
    /\ commands = <<"s", "2", "t", "3">>
    /\ startBit = 0
    /\ endBit = 16
    /\ CommandList(commands, 0) = <<0, 2>>
    /\ inputPos = 17
    /\ outputBits = <<1, 1, 0, 0, 0, 1, 0, 0, 0>>
    /\ result = <<196, 0>>
    /\ Replayed.out = outputBits


\* the chain of the block at cmdIdx
ChainHere ==
    Slice(commands, cmdIdx + 1,
          IndexRune(Slice(commands, cmdIdx + 1, Len(commands)), "]") + cmdIdx + 1)

\* the step runs the chain of a block: the block has its ']' and its count
\* and the chunk is inside the input
RunsChain ==
    /\ pc = "inner"
    /\ pc' # "panic"
    /\ cmdIdx < Len(commands)
    /\ inputPos < endBit
    /\ At(commands, cmdIdx) = "["
    /\ Contains(Slice(commands, cmdIdx + 1, Len(commands)), "]")
    /\ BlockCommand(inputBits, commands, cmdIdx, inputPos, endBit).err
          \notin {ErrBlockNoNumber, ErrBlockNumber}

\* the input bits are set from the data when the call starts and stay as
\* they are to its end; the data stays as it is unless the tool is run on the
\* file it wrote; a chain with failing commands returns the error of the
\* first of them, and nothing is written
InputKept ==
    /\ (pc = "start" /\ pc' # "start") => inputBits' = bytesToBits(data)
    /\ (pc # "start" /\ pc' # "start") => inputBits' = inputBits
    /\ firstData' = firstData => data' = data
    /\ (RunsChain /\ FailingAt(ChainHere) # {}) =>
          /\ pc' = "done"
          /\ err' = ChainErrorAt(ChainHere, Least(FailingAt(ChainHere)))
          /\ outputBits' = outputBits

\* C37: the input bit sequence is never modified during a run: a block
\* leaves the input bits inside and outside its chunk as they were, whatever
\* its chain of n, v, b, x, a, o does to the chunk, and a later run on the
\* same input starts from the same bits; when a chain fails, the error is
\* that of its first failing command
C37_InputNeverModified == [][InputKept]_vars

\* "[vn]4[nzvt]4" on the byte B0: the first block has written 0010 for the
\* bits 1011, the second has returned the error of its z, the first of its
\* two failing commands, and the input bits are still those of B0
C37_Witness ==
    /\ pc = "done"
    /\ data = <<176>>
    /\ commands = <<"[", "v", "n", "]", "4", "[", "n", "z", "v", "t", "]", "4">>
    /\ cmdIdx = 5
    /\ inputPos = 4
    /\ FailingAt(ChainHere) = {1, 3}
    /\ err = ErrChainUnknown
    /\ outputBits = <<0, 0, 1, 0>>
    /\ inputBits = bytesToBits(<<176>>)


\* the inner loop decodes a command in this step
CommandStep == pc = "inner" /\ cmdIdx < Len(commands) /\ inputPos < endBit

\* the command of this step is executed: it has not failed and the scan goes on
Executed == CommandStep /\ pc' = "inner"

\* with verbose alone every executed command is logged; with verboseOnce
\* too, an executed command is logged exactly when no pass has been
\* completed before it, and no step that follows the first pass writes a
\* line; a block that is logged has its two lines and one line for each
\* command of its chain
LoggedInTime ==
    /\ (Executed /\ verbose /\ ~verboseOnce) => logLines' >= 1
    /\ (Executed /\ verbose /\ verboseOnce) => (logLines' >= 1 <=> passIdx = 0)
    /\ (verbose /\ verboseOnce /\ passIdx > 0) => logLines' = 0
    /\ (Executed /\ verbose /\ (~verboseOnce \/ passIdx = 0)
          /\ At(commands, cmdIdx) = "[") =>
             logLines' = 2 + Cardinality(ChainPositions(ChainHere, 0))

\* C38: with verbose set and verboseOnce unset, every executed command of
\* every pass is logged; with verboseOnce set as well, a command is logged
\* if and only if it is executed during the first outer pass (pass index 0),
\* the chain commands of the blocks of that pass included, and nothing is
\* logged in any later pass
C38_DiagnosticTiming == [][LoggedInTime]_vars

\* "s2t3" on B0 41 with both flags set: the Skip of the second pass has been
\* executed and has written no line, after the first pass was logged
C38_Witness ==
    /\ pc = "inner"
    /\ verbose
    /\ verboseOnce
    /\ data = <<176, 65>>
    /\ commands = <<"s", "2", "t", "3">>
    /\ passIdx = 1
    /\ cmdIdx = 2
    /\ inputPos = 7
    /\ logged
    /\ logLines = 0


\* no count of the text is negative: the text holds no '-'
NonNegative(cmds) == \A k \in 1..Len(cmds) : cmds[k] # "-"

\* the text holds no Skip and no Insert
NoSkipNoInsert(cmds) == \A k \in 1..Len(cmds) : cmds[k] \notin {"s", "i"}

\* the call is in its loops or has returned its bytes
Accounted == pc \in {"outer", "inner", "done"} /\ err = NoErr /\ NonNegative(commands)

\* len(output bits) = (min(pos, end) - start) - skipped + inserted
LengthEquation ==
    Len(outputBits) = (Min(inputPos, endBit) - startBit) - skipped + inserted

\* the returned bytes: ceil(len(output bits) / 8) of them, the bits after
\* the last output bit being 0
ZeroPadded ==
    /\ Len(result) = (Len(outputBits) + 7) \div 8
    /\ Len(result) > 0 =>
          result[Len(result)] % Pow2(8 * Len(result) - Len(outputBits)) = 0

\* a consuming command other than Skip appends as many bits as it advances
\* the cursor, and the cursor stays inside the range
AppendsWhatItConsumes ==
    (Executed /\ NonNegative(commands) /\ At(commands, cmdIdx) \notin {"s", "i"}) =>
        /\ inputPos' <= endBit
        /\ Len(outputBits') - Len(outputBits) = inputPos' - inputPos

\* the statement as claimed: every program without Insert and Skip that
\* returns, the empty program included, yields end - start output bits
C39_AsClaimed ==
    Accounted =>
        /\ LengthEquation
        /\ (pc = "done" /\ NoSkipNoInsert(commands)) =>
              Len(outputBits) = endBit - startBit
        /\ pc = "done" => ZeroPadded

\* C39: for programs with non-negative counts, in every state of the loops
\* and at the return, len(output bits) = (min(pos, end) - start) - (input
\* bits passed over by Skip) + (bits appended by Insert), and every consuming
\* command other than Skip appends exactly as many bits as it advances the
\* cursor; a non-empty program without Insert and Skip that returns yields
\* exactly end - start output bits; the returned byte count is
\* ceil(len(output bits) / 8), the padding being zero
C39_LengthAccounting ==
    /\ [](Accounted =>
            /\ LengthEquation
            /\ (pc = "done" /\ NoSkipNoInsert(commands) /\ Len(commands) > 0) =>
                  Len(outputBits) = endBit - startBit
            /\ pc = "done" => ZeroPadded)
    /\ [][AppendsWhatItConsumes]_vars

\* "s5i1t2" on the byte B0 has returned: the first pass skipped 5 bits,
\* inserted one and took two, the Skip of the second pass went past the end
\* of the range, over its last bit
C39_Witness ==
    /\ pc = "done"
    /\ err = NoErr
    /\ data = <<176>>
    /\ commands = <<"s", "5", "i", "1", "t", "2">>
    /\ endBit = 8
    /\ inputPos = 12
    /\ skipped = 6
    /\ inserted = 1
    /\ outputBits = <<1, 0, 0>>
    /\ result = <<128>>


\* the count of the command at text position idx, 0 for an Insert
CountAt(cmds, idx) ==
    LET command == At(cmds, idx)
        argStr  == ArgStr(cmds, idx)
        rest    == Slice(cmds, idx + 1, Len(cmds))
        numStartIdx == IndexRune(rest, "]") + idx + 2
    IN CASE command \in {"t", "s", "n", "v", "b"} -> Atoi(argStr).val
         [] command \in {"x", "a", "o"} ->
               Atoi(Slice(argStr, 0, IndexRune(argStr, ":"))).val
         [] command = "[" ->
               Atoi(Slice(cmds, numStartIdx, DigitRunEnd(cmds, numStartIdx))).val
         [] OTHER -> 0

\* the text is well-formed, has no negative count and holds a consuming
\* command with a count of at least 1
Progressing(cmds) ==
    /\ NonNegative(cmds)
    /\ WellFormed(cmds)
    /\ LET list == CommandList(cmds, 0)
       IN \E k \in 1..Len(list) : CountAt(cmds, list[k]) >= 1

\* a pass of a progressing text ends beyond the cursor it started at, and
\* it is one of at most end - start passes
PassAdvances ==
    (pc = "inner" /\ pc' = "outer" /\ Progressing(commands)) =>
        /\ inputPos' > passStart
        /\ passIdx' <= endBit - startBit

\* C40: when the text is well-formed, has no negative count and holds a
\* consuming command (t, s, n, v, b, x, a, o or a block) with a count of at
\* least 1, every outer pass ends with the cursor beyond where the pass
\* started, and no more than end - start passes are made
C40_Progress == [][PassAdvances]_vars

\* "i1t1" on the bits 3 to 6 of the byte B0 has made 3 = end - start
\* passes, each of which inserted a bit and took one
C40_Witness ==
    /\ pc = "outer"
    /\ data = <<176>>
    /\ commands = <<"i", "1", "t", "1">>
    /\ startBit = 3
    /\ endBit = 6
    /\ Progressing(commands)
    /\ passIdx = 3
    /\ passStart = 5
    /\ inputPos = 6
    /\ outputBits = <<1, 1, 1, 0, 1, 0>>

====
